---------------------------- MODULE Spec2Model ----------------------------
(***************************************************************************)
(* Bank statement import of TaxHacker: the statement lifecycle             *)
(* (upload, background processing, column remap, review edits, import,     *)
(* delete), the CSV and AI extraction pipelines, the hash and duplicate    *)
(* engine and the field normalizer.                                        *)
(*                                                                         *)
(* Strings are sequences of one-character strings, so that trimming,       *)
(* lower-casing, pattern matching and number parsing are computed.         *)
(* Every await of a handler is a step of its own; the code between two     *)
(* awaits runs atomically (one JavaScript thread).                         *)
(***************************************************************************)
EXTENDS Integers, Sequences, FiniteSets, TLC

(***************************************************************************)
(* Bounds of the model                                                     *)
(***************************************************************************)
MaxStatements == 2
MaxCalls == 2
MaxExtractions == 2
MaxEdits == 1
MaxStore == 4
MaxProviders == 3

(***************************************************************************)
(* JavaScript values                                                       *)
(***************************************************************************)
\* null / undefined where a string, an id or a list is read.
Null == <<"null">>

\* null / undefined where a record is read.
Undefined == [undefined |-> TRUE]

\* undefined where a column index is read (findIndex's "not found").
NoColumn == 0 - 1

\* The number NaN, an integer no amount of the model reaches.
NaN == 0 - 1000000

\* null where a number is read: JSON.stringify writes NaN as null.
JsonNullNumber == 0 - 2000000

IsNaN(x) == x = NaN

\* a + b of two numbers; null converts to 0, NaN is absorbing.
jsAdd(a, b) ==
    IF IsNaN(a) \/ IsNaN(b) THEN NaN
    ELSE (IF a = JsonNullNumber THEN 0 ELSE a) + (IF b = JsonNullNumber THEN 0 ELSE b)

\* a - b of two numbers.
jsSub(a, b) ==
    IF IsNaN(a) \/ IsNaN(b) THEN NaN
    ELSE (IF a = JsonNullNumber THEN 0 ELSE a) - (IF b = JsonNullNumber THEN 0 ELSE b)

\* -a
jsNeg(a) == IF IsNaN(a) THEN NaN ELSE IF a = JsonNullNumber THEN 0 ELSE 0 - a

\* Math.abs(a)
jsAbs(a) == IF IsNaN(a) THEN NaN ELSE IF a < 0 THEN 0 - a ELSE a

(***************************************************************************)
(* Characters and strings                                                  *)
(***************************************************************************)
Digits == <<"0", "1", "2", "3", "4", "5", "6", "7", "8", "9">>
UpperChars == <<"A", "B", "C", "D", "E", "F", "G", "H", "I", "J", "K", "L", "M",
                "N", "O", "P", "Q", "R", "S", "T", "U", "V", "W", "X", "Y", "Z">>
LowerChars == <<"a", "b", "c", "d", "e", "f", "g", "h", "i", "j", "k", "l", "m",
                "n", "o", "p", "q", "r", "s", "t", "u", "v", "w", "x", "y", "z">>

\* \s of a JavaScript regular expression, the characters the model uses.
IsSpace(c) == c \in {" ", "\t", "\n", "\r"}

\* \d
IsDigit(c) == \E k \in 1..10 : Digits[k] = c

DigitVal(c) == (CHOOSE k \in 1..10 : Digits[k] = c) - 1

AllDigits(s) == \A i \in 1..Len(s) : IsDigit(s[i])

\* String.prototype.toLowerCase
toLowerCase(s) ==
    [i \in 1..Len(s) |->
        IF \E k \in 1..26 : UpperChars[k] = s[i]
        THEN LowerChars[CHOOSE k \in 1..26 : UpperChars[k] = s[i]]
        ELSE s[i]]

\* String.prototype.trim
RECURSIVE trimStart(_)
trimStart(s) == IF s # <<>> /\ IsSpace(Head(s)) THEN trimStart(Tail(s)) ELSE s

RECURSIVE trimEnd(_)
trimEnd(s) ==
    IF s # <<>> /\ IsSpace(s[Len(s)]) THEN trimEnd(SubSeq(s, 1, Len(s) - 1)) ELSE s

trim(s) == trimEnd(trimStart(s))

\* s.replace(/\s+/g, " "): every maximal run of whitespace becomes one space.
RECURSIVE collapseSpaces(_)
collapseSpaces(s) ==
    IF s = <<>> THEN <<>>
    ELSE IF IsSpace(Head(s))
         THEN <<" ">> \o collapseSpaces(trimStart(s))
         ELSE <<Head(s)>> \o collapseSpaces(Tail(s))

\* s.replace(/[...]/g, ""): the characters of cs removed.
RECURSIVE removeChars(_, _)
removeChars(s, cs) ==
    IF s = <<>> THEN <<>>
    ELSE IF Head(s) \in cs THEN removeChars(Tail(s), cs)
         ELSE <<Head(s)>> \o removeChars(Tail(s), cs)

\* s.replace(c, d): the first occurrence only.
RECURSIVE replaceFirst(_, _, _)
replaceFirst(s, c, d) ==
    IF s = <<>> THEN <<>>
    ELSE IF Head(s) = c THEN <<d>> \o Tail(s)
         ELSE <<Head(s)>> \o replaceFirst(Tail(s), c, d)

\* s.split(c)[0]
RECURSIVE splitFirst(_, _)
splitFirst(s, c) ==
    IF s = <<>> \/ Head(s) = c THEN <<>>
    ELSE <<Head(s)>> \o splitFirst(Tail(s), c)

\* s.slice(0, n)
sliceTo(s, n) == SubSeq(s, 1, IF Len(s) < n THEN Len(s) ELSE n)

\* a.includes(b) for strings
includes(a, b) ==
    \E i \in 0..(Len(a) - Len(b)) : SubSeq(a, i + 1, i + Len(b)) = b

\* the decimal digits of a natural number
RECURSIVE natToString(_)
natToString(n) ==
    IF n < 10 THEN <<Digits[n + 1]>>
    ELSE natToString(n \div 10) \o <<Digits[(n % 10) + 1]>>

\* `${n}` of a number
numberToString(n) ==
    IF IsNaN(n) THEN <<"N", "a", "N">>
    ELSE IF n = JsonNullNumber THEN <<"n", "u", "l", "l">>
    ELSE IF n < 0 THEN <<"-">> \o natToString(0 - n)
    ELSE natToString(n)

\* s.padStart(2, "0")
padStart2(s) == IF Len(s) < 2 THEN <<"0">> \o s ELSE s

\* parseInt(s, 10) of a string of digits
RECURSIVE parseIntDigits(_)
parseIntDigits(s) ==
    IF s = <<>> THEN 0
    ELSE parseIntDigits(SubSeq(s, 1, Len(s) - 1)) * 10 + DigitVal(s[Len(s)])

\* the longest prefix of s made of digits
RECURSIVE digitPrefix(_)
digitPrefix(s) ==
    IF s # <<>> /\ IsDigit(Head(s)) THEN <<Head(s)>> \o digitPrefix(Tail(s)) ELSE <<>>


\* The model's characters in code-unit order, for < and > on strings.
CharOrder == <<"\t", "\n", "\r", " ", "$", "(", ")", "+", ",", "-", ".", "/">>
             \o Digits \o <<":">> \o UpperChars \o LowerChars \o <<"|">>

CharCode(c) == CHOOSE k \in 1..Len(CharOrder) : CharOrder[k] = c

\* a < b on strings (code-unit order)
RECURSIVE strLess(_, _)
strLess(a, b) ==
    IF b = <<>> THEN FALSE
    ELSE IF a = <<>> THEN TRUE
    ELSE IF Head(a) = Head(b) THEN strLess(Tail(a), Tail(b))
    ELSE CharCode(Head(a)) < CharCode(Head(b))

(***************************************************************************)
(* Hash and duplicate engine: pure part                                    *)
(***************************************************************************)
\* A normalisation that keeps the letters' case.
normalizeDescriptionCased(description) ==
    trim(collapseSpaces(description))

normalizeDescription(description) ==
    trim(collapseSpaces(toLowerCase(description)))

\* The digest is taken as injective: a hash is the digest's input string.
md5(input) == <<"md5", input>>

generateTransactionHash(date, amount, description) ==
    LET dateStr == splitFirst(date, "T")
        normalized == normalizeDescription(description)
        input == dateStr \o <<"|">> \o numberToString(amount) \o <<"|">> \o normalized
    IN  md5(input)

(***************************************************************************)
(* Field normalizer                                                        *)
(***************************************************************************)
\* parseFloat(s): an optional sign, digits, an optional point and digits.
\* [nan, int, frac]: frac holds the digits after the point. Exponents and
\* "Infinity" are not read: no input of the model has them.
parseFloat(s) ==
    LET t == trimStart(s)
        u == IF t # <<>> /\ Head(t) \in {"+", "-"} THEN Tail(t) ELSE t
        neg == t # <<>> /\ Head(t) = "-"
        ip == digitPrefix(u)
        rest == SubSeq(u, Len(ip) + 1, Len(u))
        fp == IF rest # <<>> /\ Head(rest) = "." THEN digitPrefix(Tail(rest)) ELSE <<>>
    IN  IF ip = <<>> /\ fp = <<>>
        THEN [nan |-> TRUE, neg |-> FALSE, int |-> 0, frac |-> <<>>]
        ELSE [nan |-> FALSE, neg |-> neg, int |-> parseIntDigits(ip), frac |-> fp]

\* Math.round(x * 100) of a parsed decimal, computed on the decimal digits
\* (exact arithmetic; Math.round takes a half towards +infinity). When the
\* digits from the third on denote exactly a half the product of the
\* doubles may fall on either side of it: no input of the model is such.
roundTimes100(x) ==
    IF x.nan THEN NaN
    ELSE LET d(i) == IF i <= Len(x.frac) THEN DigitVal(x.frac[i]) ELSE 0
             low == x.int * 100 + d(1) * 10 + d(2)
             exact3 == \A i \in 4..Len(x.frac) : x.frac[i] = "0"
         IN  IF ~x.neg
             THEN low + (IF d(3) >= 5 THEN 1 ELSE 0)
             ELSE 0 - (low + (IF d(3) > 5 \/ (d(3) = 5 /\ ~exact3) THEN 1 ELSE 0))

\* /,\d{2}$/
endsCommaTwoDigits(s) ==
    /\ Len(s) >= 3
    /\ s[Len(s) - 2] = ","
    /\ IsDigit(s[Len(s) - 1])
    /\ IsDigit(s[Len(s)])

\* A parser that reads every string as US.
parseAmountUS(amountStr, defaultType) ==
    LET cleaned0 == trim(removeChars(amountStr, {"$", " ", "\t", "\n", "\r"}))
        isNegative == cleaned0 # <<>> /\ Head(cleaned0) \in {"-", "("}
        cleaned == removeChars(removeChars(cleaned0, {"(", ")", "-"}), {","})
        value == roundTimes100(parseFloat(cleaned))
    IN  [amount |-> jsAbs(value), type |-> IF isNegative THEN "debit" ELSE defaultType]

parseAmount(amountStr, defaultType) ==
    LET cleaned0 == trim(removeChars(amountStr, {"$", " ", "\t", "\n", "\r"}))
        isNegative == cleaned0 # <<>> /\ Head(cleaned0) \in {"-", "("}
        cleaned1 == removeChars(cleaned0, {"(", ")", "-"})
        cleaned == IF endsCommaTwoDigits(cleaned1)
                   THEN replaceFirst(removeChars(cleaned1, {"."}), ",", ".")
                   ELSE removeChars(cleaned1, {","})
        value == roundTimes100(parseFloat(cleaned))
        type == IF isNegative THEN "debit"
                ELSE IF ~IsNaN(value) /\ value > 0 /\ defaultType = "debit" THEN "debit"
                ELSE defaultType
    IN  [amount |-> jsAbs(value), type |-> type]

\* /^\d{4}-\d{2}-\d{2}/
isIsoPrefix(s) ==
    /\ Len(s) >= 10
    /\ AllDigits(SubSeq(s, 1, 4)) /\ s[5] = "-"
    /\ AllDigits(SubSeq(s, 6, 7)) /\ s[8] = "-"
    /\ AllDigits(SubSeq(s, 9, 10))

\* /^(\d{1,2})SEP(\d{1,2})SEP(\d{4})$/ with SEP one character of seps:
\* the three groups, or Null when the string does not match.
matchDayMonthYear(s, seps) ==
    LET first == digitPrefix(s)
        r1 == SubSeq(s, Len(first) + 1, Len(s))
        second == IF r1 = <<>> THEN <<>> ELSE digitPrefix(Tail(r1))
        r2 == IF r1 = <<>> THEN <<>> ELSE SubSeq(r1, Len(second) + 2, Len(r1))
        year == IF r2 = <<>> THEN <<>> ELSE Tail(r2)
    IN  IF /\ Len(first) \in {1, 2}
           /\ r1 # <<>> /\ Head(r1) \in seps
           /\ Len(second) \in {1, 2}
           /\ r2 # <<>> /\ Head(r2) \in seps
           /\ Len(year) = 4 /\ AllDigits(year)
        THEN <<first, second, year>>
        ELSE Null

\* new Date(s) for a string none of the patterns matched: the legacy parser
\* reads no string of the model's inputs as a date.
nativeDateIsValid(s) == FALSE

\* A parser that orders day and month by the preference alone.
parseDateByPreference(dateStr, preferEuropean) ==
    LET cleaned == trim(dateStr)
        slashMatch == matchDayMonthYear(cleaned, {"/", "-"})
        dotMatch == matchDayMonthYear(cleaned, {"."})
    IN  IF isIsoPrefix(cleaned)
        THEN [ok |-> TRUE, value |-> sliceTo(cleaned, 10)]
        ELSE IF slashMatch # Null
        THEN LET day == IF preferEuropean THEN slashMatch[1] ELSE slashMatch[2]
                 month == IF preferEuropean THEN slashMatch[2] ELSE slashMatch[1]
             IN  [ok |-> TRUE,
                  value |-> slashMatch[3] \o <<"-">> \o padStart2(month)
                            \o <<"-">> \o padStart2(day)]
        ELSE IF dotMatch # Null
        THEN [ok |-> TRUE,
              value |-> dotMatch[3] \o <<"-">> \o padStart2(dotMatch[2])
                        \o <<"-">> \o padStart2(dotMatch[1])]
        ELSE [ok |-> FALSE, value |-> <<>>]

\* [ok |-> TRUE, value |-> date] or [ok |-> FALSE] for the thrown Error.
parseDate(dateStr, preferEuropean) ==
    LET cleaned == trim(dateStr)
        slashMatch == matchDayMonthYear(cleaned, {"/", "-"})
        dotMatch == matchDayMonthYear(cleaned, {"."})
    IN  IF isIsoPrefix(cleaned)
        THEN [ok |-> TRUE, value |-> sliceTo(cleaned, 10)]
        ELSE IF slashMatch # Null
        THEN LET firstNum == parseIntDigits(slashMatch[1])
                 secondNum == parseIntDigits(slashMatch[2])
                 dayFirst == IF firstNum > 12 THEN TRUE
                             ELSE IF secondNum > 12 THEN FALSE
                             ELSE preferEuropean
                 day == IF dayFirst THEN firstNum ELSE secondNum
                 month == IF dayFirst THEN secondNum ELSE firstNum
             IN  [ok |-> TRUE,
                  value |-> slashMatch[3] \o <<"-">> \o padStart2(numberToString(month))
                            \o <<"-">> \o padStart2(numberToString(day))]
        ELSE IF dotMatch # Null
        THEN [ok |-> TRUE,
              value |-> dotMatch[3] \o <<"-">> \o padStart2(dotMatch[2])
                        \o <<"-">> \o padStart2(dotMatch[1])]
        ELSE IF nativeDateIsValid(cleaned)
        THEN [ok |-> TRUE, value |-> cleaned]
        ELSE [ok |-> FALSE, value |-> <<>>]


(***************************************************************************)
(* Format detector                                                         *)
(***************************************************************************)
datePatterns ==
    {<<"d", "a", "t", "e">>, <<"d", "a", "t", "u", "m">>,
     <<"d", "a", "t", "a">>, <<"t", "r", "a", "n", "s", "a", "c", "t", "i", "o", "n", " ", "d", "a", "t", "e">>,
     <<"v", "a", "l", "u", "e", " ", "d", "a", "t", "e">>, <<"b", "o", "o", "k", "i", "n", "g", " ", "d", "a", "t", "e">>}

descPatterns ==
    {<<"d", "e", "s", "c", "r", "i", "p", "t", "i", "o", "n">>, <<"r", "e", "f", "e", "r", "e", "n", "c", "e">>,
     <<"d", "e", "t", "a", "i", "l", "s">>, <<"n", "a", "r", "r", "a", "t", "i", "v", "e">>,
     <<"m", "e", "m", "o">>, <<"t", "e", "x", "t">>,
     <<"l", "i", "b", "e", "l", "l", "e">>, <<"b", "e", "z", "e", "i", "c", "h", "n", "u", "n", "g">>}

amountPatterns ==
    {<<"a", "m", "o", "u", "n", "t">>, <<"v", "a", "l", "u", "e">>, <<"s", "u", "m">>,
     <<"t", "o", "t", "a", "l">>, <<"b", "e", "t", "r", "a", "g">>, <<"m", "o", "n", "t", "a", "n", "t">>}

typePatterns ==
    {<<"t", "y", "p", "e">>, <<"d", "e", "b", "i", "t", "/", "c", "r", "e", "d", "i", "t">>, <<"d", "/", "c">>,
     <<"d", "i", "r", "e", "c", "t", "i", "o", "n">>, <<"s", "i", "d", "e">>}

currencyPatterns ==
    {<<"c", "u", "r", "r", "e", "n", "c", "y">>, <<"c", "c", "y">>, <<"c", "u", "r", "r">>,
     <<"w", "a", "h", "r", "u", "n", "g">>, <<"d", "e", "v", "i", "s", "e">>}

debitWords ==
    {<<"d", "e", "b", "i", "t">>, <<"w", "i", "t", "h", "d", "r", "a", "w", "a", "l">>}

creditWords ==
    {<<"c", "r", "e", "d", "i", "t">>, <<"d", "e", "p", "o", "s", "i", "t">>}

\* isNaN(Number(s)) for a string without "," and ".": a number is an optional
\* sign and digits (the empty string converts to 0).
isNaNNumber(s) ==
    LET t == trim(s)
        u == IF t # <<>> /\ Head(t) \in {"+", "-"} THEN Tail(t) ELSE t
    IN  IF t = <<>> THEN FALSE ELSE ~(u # <<>> /\ AllDigits(u))

\* The header test of parseCSV and analyzeCSVFormat: every cell is non-empty
\* and, without its commas and points, not a number.
hasHeaderRow(firstRow) ==
    \A i \in 1..Len(firstRow) :
        LET trimmed == trim(firstRow[i])
        IN  Len(trimmed) > 0 /\ isNaNNumber(removeChars(trimmed, {",", "."}))

\* The index (from 0) of the first header that contains one of the patterns,
\* NoColumn when there is none.
firstColumnWith(lowerHeaders, patterns) ==
    LET hits == {i \in 1..Len(lowerHeaders) :
                    \E p \in patterns : includes(lowerHeaders[i], p)}
    IN  IF hits = {} THEN NoColumn
        ELSE (CHOOSE i \in hits : \A j \in hits : i <= j) - 1

\* A CSVColumnMapping, or Undefined when the required columns are not found.
autoDetectColumnMapping(headers) ==
    LET lowerHeaders == [i \in 1..Len(headers) |-> trim(toLowerCase(headers[i]))]
        dateColumn == firstColumnWith(lowerHeaders, datePatterns)
        descriptionColumn == firstColumnWith(lowerHeaders, descPatterns)
        amountColumn == firstColumnWith(lowerHeaders, amountPatterns)
        typeColumn == firstColumnWith(lowerHeaders, typePatterns)
        currencyColumn == firstColumnWith(lowerHeaders, currencyPatterns)
        debitIdx == firstColumnWith(lowerHeaders, debitWords)
    IN  IF dateColumn = NoColumn \/ (amountColumn = NoColumn /\ debitIdx = NoColumn)
        THEN Undefined
        ELSE [dateColumn |-> dateColumn,
              descriptionColumn |-> IF descriptionColumn = NoColumn THEN 1
                                    ELSE descriptionColumn,
              amountColumn |-> IF amountColumn = NoColumn THEN debitIdx ELSE amountColumn,
              typeColumn |-> typeColumn,
              currencyColumn |-> currencyColumn]

(***************************************************************************)
(* Summary                                                                 *)
(***************************************************************************)
\* transactions.reduce((sum, t) => sum + t.amount, 0)
RECURSIVE sumAmounts(_)
sumAmounts(transactions) ==
    IF transactions = <<>> THEN 0
    ELSE LET n == Len(transactions)
         IN  jsAdd(sumAmounts(SubSeq(transactions, 1, n - 1)), transactions[n].amount)

\* The dates' least (wantMin) or greatest, as the loop of calculateSummary
\* finds it: the empty string is falsy and is replaced by the next date.
RECURSIVE dateBound(_, _)
dateBound(transactions, wantMin) ==
    IF transactions = <<>> THEN <<>>
    ELSE LET n == Len(transactions)
             acc == dateBound(SubSeq(transactions, 1, n - 1), wantMin)
             d == transactions[n].date
         IN  IF acc = <<>> THEN d
             ELSE IF wantMin /\ strLess(d, acc) THEN d
             ELSE IF ~wantMin /\ strLess(acc, d) THEN d
             ELSE acc

calculateSummary(transactions) ==
    LET totalDebits == sumAmounts(SelectSeq(transactions, LAMBDA t : t.type = "debit"))
        totalCredits == sumAmounts(SelectSeq(transactions, LAMBDA t : t.type # "debit"))
    IN  [totalDebits |-> totalDebits,
         totalCredits |-> totalCredits,
         netAmount |-> jsSub(totalCredits, totalDebits),
         transactionCount |-> Len(transactions),
         dateRange |-> [start |-> dateBound(transactions, TRUE),
                        end |-> dateBound(transactions, FALSE)]]

(***************************************************************************)
(* CSV extraction pipeline                                                 *)
(***************************************************************************)
\* generateTempId(): a fresh UUID; the i-th id of extraction run batch.
generateTempId(batch, i) == batch \o <<i>>

\* row[column]?.trim() || "" for a column index counted from 0
getColumnValue(row, column) ==
    IF column >= 0 /\ column < Len(row) THEN trim(row[column + 1]) ELSE <<>>

\* A column index used as a condition: undefined and 0 are falsy.
columnIsTruthy(column) == column # NoColumn /\ column # 0

\* The explicit type of a row, or the type parsed from the amount's sign.
overrideType(typeStr, parsedType) ==
    LET lowerType == toLowerCase(typeStr)
    IN  IF typeStr = <<>> THEN parsedType
        ELSE IF \/ includes(lowerType, <<"c", "r", "e", "d", "i", "t">>)
                \/ lowerType = <<"c">> \/ lowerType = <<"c", "r">>
        THEN "credit"
        ELSE IF \/ includes(lowerType, <<"d", "e", "b", "i", "t">>)
                \/ lowerType = <<"d">> \/ lowerType = <<"d", "b">>
        THEN "debit"
        ELSE parsedType

\* One pass of the row loop of parseCSV: the transaction of the row with
\* the given id, or Undefined when the row is skipped (blank row, no date or
\* amount cell, or a cell that makes parseDate throw).
extractRow(row, columnMapping, defaultCurrency, id) ==
    LET dateStr == getColumnValue(row, columnMapping.dateColumn)
        description == getColumnValue(row, columnMapping.descriptionColumn)
        amountStr == getColumnValue(row, columnMapping.amountColumn)
        typeStr == IF columnIsTruthy(columnMapping.typeColumn)
                   THEN getColumnValue(row, columnMapping.typeColumn)
                   ELSE <<>>
        currency == IF columnIsTruthy(columnMapping.currencyColumn)
                    THEN getColumnValue(row, columnMapping.currencyColumn)
                    ELSE defaultCurrency
        date == parseDate(dateStr, TRUE)
        parsed == parseAmount(amountStr, "debit")
    IN  IF \A i \in 1..Len(row) : trim(row[i]) = <<>> THEN Undefined
        ELSE IF dateStr = <<>> \/ amountStr = <<>> THEN Undefined
        ELSE IF ~date.ok THEN Undefined
        ELSE [id |-> id,
              date |-> date.value,
              description |-> description,
              amount |-> parsed.amount,
              type |-> overrideType(typeStr, parsed.type),
              currency |-> IF currency = <<>> THEN defaultCurrency ELSE currency,
              confidence |-> 100,
              edited |-> FALSE,
              selected |-> TRUE,
              hash |-> generateTransactionHash(date.value, parsed.amount, description),
              isDuplicate |-> FALSE,
              duplicateOf |-> Null]

\* The row loop: the transactions of dataRows, in order, after acc.
RECURSIVE extractRows(_, _, _, _, _)
extractRows(dataRows, columnMapping, defaultCurrency, batch, acc) ==
    IF dataRows = <<>> THEN acc
    ELSE CHOOSE rest \in
            {extractRows(Tail(dataRows), columnMapping, defaultCurrency, batch,
                         IF tx = Undefined THEN acc ELSE Append(acc, tx)) :
                tx \in {extractRow(Head(dataRows), columnMapping, defaultCurrency,
                                   generateTempId(batch, Len(acc) + 1))}} : TRUE

\* parseCSV(filePath, mapping, defaultCurrency): content is the file at the
\* path as the CSV reader splits it into rows, Undefined when it is missing.
parseCSV(content, mapping, defaultCurrency, batch) ==
    IF content = Undefined
    THEN [success |-> FALSE, error |-> "ENOENT: no such file or directory"]
    ELSE IF Len(content.rows) = 0
    THEN [success |-> FALSE, error |-> "CSV file is empty"]
    ELSE
    LET rows == content.rows
        firstRow == rows[1]
        hasHeaders == hasHeaderRow(firstRow)
        headers == IF hasHeaders THEN firstRow ELSE <<>>
        dataRows == IF hasHeaders THEN Tail(rows) ELSE rows
        columnMapping == IF mapping = Undefined /\ hasHeaders
                         THEN autoDetectColumnMapping(headers)
                         ELSE mapping
    IN  IF columnMapping = Undefined
        THEN [success |-> FALSE,
              error |-> "Unable to auto-detect column mapping. Please provide manual column configuration."]
        ELSE CHOOSE result \in
                {IF Len(transactions) = 0
                 THEN [success |-> FALSE,
                       error |-> "No valid transactions found in CSV file"]
                 ELSE [success |-> TRUE,
                       data |-> [transactions |-> transactions,
                                 summary |-> calculateSummary(transactions),
                                 format |-> "csv",
                                 metadata |-> FALSE]] :
                    transactions \in {extractRows(dataRows, columnMapping,
                                                  defaultCurrency, batch, <<>>)}} : TRUE

(***************************************************************************)
(* AI extraction pipeline                                                  *)
(***************************************************************************)
\* Math.round(amount * 100) for an amount given in thousandths.
roundMilliToCents(milli) == (milli + 5) \div 10

\* The transactions of the provider's output as ExtractedTransactions.
mapProviderTransactions(entries, currency, batch) ==
    [i \in 1..Len(entries) |->
        LET tx == entries[i]
            amountInCents == roundMilliToCents(tx.amountMilli)
        IN  [id |-> generateTempId(batch, i),
             date |-> tx.date,
             description |-> tx.description,
             amount |-> amountInCents,
             type |-> tx.type,
             currency |-> currency,
             confidence |-> 90,
             edited |-> FALSE,
             selected |-> TRUE,
             hash |-> generateTransactionHash(tx.date, amountInCents, tx.description),
             isDuplicate |-> FALSE,
             duplicateOf |-> Null]]

\* parsePDF: previews is the number of page images rendered (0 also stands for
\* a missing file), response the answer of requestLLM.
parsePDF(previews, response, defaultCurrency, batch) ==
    IF previews = 0
    THEN [success |-> FALSE, error |-> "Unable to generate previews from PDF"]
    ELSE IF response.error # ""
    THEN [success |-> FALSE, error |-> response.error]
    ELSE IF Len(response.output.transactions) = 0
    THEN [success |-> FALSE, error |-> "No transactions found in the bank statement"]
    ELSE
    LET output == response.output
        currency == IF output.currency = <<>> THEN defaultCurrency ELSE output.currency
        transactions == mapProviderTransactions(output.transactions, currency, batch)
    IN  [success |-> TRUE,
         data |-> [transactions |-> transactions,
                   summary |-> calculateSummary(transactions),
                   format |-> "pdf",
                   metadata |-> output.bankName # <<>>]]

\* validateLLMSettings: the error of a configuration without a provider that
\* has both a key and a model, "" when there is one.
validateLLMSettings(configuredProviders) ==
    IF configuredProviders = 0
    THEN "No LLM provider configured. Please configure an AI provider in Settings to parse PDF bank statements."
    ELSE ""

(***************************************************************************)
(* Inputs of the model                                                     *)
(***************************************************************************)
Users == {"u1", "u2"}

\* settings.default_currency || "EUR"
DefaultCurrency == <<"E", "U", "R">>

\* Two rows under a header row; the last column is blank in the second row.
CsvA ==
    [name |-> "a.csv", type |-> "text/csv",
     rows |-> <<<<<<"D", "a", "t", "e">>, <<"D", "e", "s", "c", "r", "i", "p", "t", "i", "o", "n">>, <<"A", "m", "o", "u", "n", "t">>, <<"T", "y", "p", "e">>, <<"B", "o", "o", "k", "e", "d">>>>,
                <<<<"2", "0", "2", "4", "-", "0", "1", "-", "0", "5">>, <<"R", "e", "n", "t">>, <<"-", "5", "0", ".", "0", "0">>, <<"d", "e", "b", "i", "t">>, <<"0", "5", ".", "0", "1", ".", "2", "0", "2", "4">>>>,
                <<<<"0", "7", "/", "0", "1", "/", "2", "0", "2", "4">>, <<"P", "a", "y">>, <<"1", "2", ".", "5", "0">>, <<"c", "r", "e", "d", "i", "t">>, <<>>>>>>]

\* Two rows and no header row: the columns cannot be detected. The amount
\* cell of the second row is not a number.
CsvB ==
    [name |-> "b.csv", type |-> "text/csv",
     rows |-> <<<<<<"2", "0", "2", "4", "-", "0", "2", "-", "0", "1">>, <<"F", "e", "e">>, <<"3", ".", "0", "0">>>>,
                <<<<"2", "0", "2", "4", "-", "0", "2", "-", "0", "2">>, <<"T", "a", "x">>, <<"n", "/", "a">>>>>>]

PdfC == [name |-> "c.pdf", type |-> "application/pdf", rows |-> <<>>]

PngD == [name |-> "d.png", type |-> "image/png", rows |-> <<>>]

Files == {CsvA, CsvB, PdfC, PngD}

\* file.name.endsWith(".csv") / path.endsWith(".csv")
endsWithCsv(name) == name \in {"a.csv", "b.csv"}

\* Column mappings a user submits.
MappingStandard ==
    [dateColumn |-> 0, descriptionColumn |-> 1, amountColumn |-> 2,
     typeColumn |-> 3, currencyColumn |-> NoColumn]

MappingBooked ==
    [dateColumn |-> 4, descriptionColumn |-> 1, amountColumn |-> 2,
     typeColumn |-> NoColumn, currencyColumn |-> NoColumn]

Mappings == {MappingStandard, MappingBooked}

\* Answers of requestLLM.
ProviderFailed ==
    [error |-> "All LLM providers failed", output |-> Undefined]

ProviderEmpty ==
    [error |-> "",
     output |-> [bankName |-> <<>>, currency |-> <<>>, transactions |-> <<>>]]

ProviderOne ==
    [error |-> "",
     output |-> [bankName |-> <<"B", "a", "n", "k">>, currency |-> <<>>,
                 transactions |-> <<[date |-> <<"2", "0", "2", "4", "-", "0", "3", "-", "0", "1">>,
                                     description |-> <<"C", "a", "r", "d">>,
                                     amountMilli |-> 20000,
                                     type |-> "credit"]>>]]

\* An answer whose amount carries a sign: -4.50.
ProviderNegative ==
    [error |-> "",
     output |-> [bankName |-> <<>>, currency |-> <<>>,
                 transactions |-> <<[date |-> <<"2", "0", "2", "4", "-", "0", "3", "-", "0", "2">>,
                                     description |-> <<"A", "t", "m">>,
                                     amountMilli |-> 0 - 4500,
                                     type |-> "debit"]>>]]

ProviderResponses == {ProviderFailed, ProviderEmpty, ProviderOne, ProviderNegative}

(***************************************************************************)
(* Workloads: which files are uploaded, by whom, and which server actions  *)
(* the clients call, how many at a time.                                   *)
(***************************************************************************)
\* The same file uploaded twice and imported.
Reupload ==
    [name |-> "reupload", statements |-> MaxStatements, files |-> {CsvA},
     uploaders |-> {"u1"}, callers |-> {"u1"}, ops |-> {"import"},
     calls |-> 1, extractions |-> 1, edits |-> 0, store |-> MaxStore,
     skipDuplicates |-> {TRUE}, subsets |-> FALSE]

\* One statement edited and imported, one request after the other.
Review ==
    [name |-> "review", statements |-> 1, files |-> {CsvA},
     uploaders |-> {"u1"}, callers |-> {"u1"}, ops |-> {"edit", "import"},
     calls |-> 1, extractions |-> 1, edits |-> MaxEdits, store |-> 2,
     skipDuplicates |-> BOOLEAN, subsets |-> TRUE]

\* One statement remapped and imported, one request after the other.
Remapping ==
    [name |-> "remapping", statements |-> 1, files |-> {CsvA, CsvB},
     uploaders |-> {"u1"}, callers |-> {"u1"}, ops |-> {"remap", "import"},
     calls |-> 1, extractions |-> MaxExtractions, edits |-> 0, store |-> 2,
     skipDuplicates |-> BOOLEAN, subsets |-> TRUE]

\* One statement edited and remapped at the same time.
Race ==
    [name |-> "race", statements |-> 1, files |-> {CsvA},
     uploaders |-> {"u1"}, callers |-> {"u1"}, ops |-> {"edit", "remap"},
     calls |-> MaxCalls, extractions |-> MaxExtractions, edits |-> MaxEdits, store |-> 0,
     skipDuplicates |-> BOOLEAN, subsets |-> TRUE]

\* One statement edited by two requests at the same time.
Editing ==
    [name |-> "editing", statements |-> 1, files |-> {CsvA},
     uploaders |-> {"u1"}, callers |-> {"u1"}, ops |-> {"edit"},
     calls |-> MaxCalls, extractions |-> 1, edits |-> MaxCalls, store |-> 0,
     skipDuplicates |-> {TRUE}, subsets |-> FALSE]

\* Statements deleted while they are processed and imported.
Removal ==
    [name |-> "removal", statements |-> 1, files |-> {CsvA, PdfC, PngD},
     uploaders |-> {"u1"}, callers |-> {"u1", "u2"}, ops |-> {"delete", "import"},
     calls |-> MaxCalls, extractions |-> 1, edits |-> 0, store |-> 2,
     skipDuplicates |-> BOOLEAN, subsets |-> TRUE]

\* Every ready statement imported at once.
Bulk ==
    [name |-> "bulk", statements |-> MaxStatements, files |-> {CsvA, PdfC},
     uploaders |-> {"u1", "u2"}, callers |-> {"u1"}, ops |-> {"importAll"},
     calls |-> 1, extractions |-> 1, edits |-> 0, store |-> MaxStore,
     skipDuplicates |-> BOOLEAN, subsets |-> FALSE]

\* No statement: one application of a function of the utilities, as the
\* hash of one transaction as each pipeline computes it.
Hashing ==
    [name |-> "hashing", statements |-> 0, files |-> {},
     uploaders |-> {}, callers |-> {"u1"}, ops |-> {"hash", "amount", "date", "delimiter", "row"},
     calls |-> 1, extractions |-> 0, edits |-> 0, store |-> 0,
     skipDuplicates |-> {TRUE}, subsets |-> FALSE]

\* No statement: requests to the providers of the user's settings.
Providers ==
    [name |-> "providers", statements |-> 0, files |-> {},
     uploaders |-> {}, callers |-> {"u1"}, ops |-> {"llm"},
     calls |-> 1, extractions |-> 0, edits |-> 0, store |-> 0,
     skipDuplicates |-> {TRUE}, subsets |-> FALSE]

\* Instants are hours since the epoch.
\* The extracted transaction matched: dated day 100, amount 50.00.
MatchTransaction ==
    [day |-> 100, amount |-> 5000, description |-> <<"R", "E", "N", "T", " ", " ", "J", "a", "n">>]

\* Rows the transactions table may hold before the call: invoices and manual
\* entries of the amount one day, seven days and seven days and one hour
\* before the transaction's date, a bank import, a linked row, a row of
\* another user.
InvoiceRows ==
    {[id |-> "i1", userId |-> "u1", total |-> 5000, issuedAt |-> 2400 - 24,
      merchant |-> <<"R", "e", "n", "t">>, name |-> "Rent January",
      sourceType |-> "invoice", linkedTransactionId |-> Null],
     [id |-> "i2", userId |-> "u1", total |-> 5000, issuedAt |-> 2400 - 24,
      merchant |-> <<"S", "h", "o", "p">>, name |-> "Shop",
      sourceType |-> "manual", linkedTransactionId |-> Null],
     [id |-> "i3", userId |-> "u1", total |-> 5000, issuedAt |-> 2400 - 168,
      merchant |-> Null, name |-> "Transfer",
      sourceType |-> "null", linkedTransactionId |-> Null],
     [id |-> "i4", userId |-> "u1", total |-> 5000, issuedAt |-> 2400 - 169,
      merchant |-> Null, name |-> "Cash",
      sourceType |-> "invoice", linkedTransactionId |-> Null],
     [id |-> "b1", userId |-> "u1", total |-> 5000, issuedAt |-> 2400,
      merchant |-> <<"R", "e", "n", "t">>, name |-> "Rent",
      sourceType |-> "bank-import", linkedTransactionId |-> Null,
      transactionHash |-> <<"md5", <<"b", "1">>>>],
     [id |-> "l1", userId |-> "u1", total |-> 5000, issuedAt |-> 2400,
      merchant |-> <<"R", "e", "n", "t">>, name |-> "Rent",
      sourceType |-> "invoice", linkedTransactionId |-> <<"i9">>],
     [id |-> "o1", userId |-> "u2", total |-> 5000, issuedAt |-> 2400,
      merchant |-> <<"R", "e", "n", "t">>, name |-> "Rent",
      sourceType |-> "invoice", linkedTransactionId |-> Null]}

\* The server's time zone: its offset from UTC in hours before and after
\* the instant of a change of its clocks. UTC, a zone whose clocks went
\* back three days before the transaction's date, a zone whose clocks go
\* forward three days after it.
TimeZones ==
    {[change |-> 0, before |-> 0, after |-> 0],
     [change |-> 2400 - 72, before |-> 2, after |-> 1],
     [change |-> 2400 + 72, before |-> 1, after |-> 2]}

\* No statement: suggestions for one extracted transaction against invoices
\* recorded before.
Reconciliation ==
    [name |-> "reconciliation", statements |-> 0, files |-> {},
     uploaders |-> {}, callers |-> {"u1"}, ops |-> {"match"},
     calls |-> 1, extractions |-> 0, edits |-> 0, store |-> 0,
     skipDuplicates |-> {TRUE}, subsets |-> FALSE]

Workloads ==
    {Reupload, Review, Remapping, Race, Editing, Removal, Bulk, Hashing, Providers,
     Reconciliation}

(***************************************************************************)
(* State                                                                   *)
(***************************************************************************)
VARIABLES
    stmts,   \* the bank_statements table: statement id -> row
    disk,    \* the uploaded file of each statement, Undefined once unlinked
    store,   \* the transactions table: a set of persisted transactions
    procs,   \* the background run processBankStatement of each statement
    calls,   \* the server actions in flight
    runs,    \* extraction runs started per statement (their temporary ids)
    edits,   \* updateExtractedTransaction calls made so far
    ret,     \* the result of the action or run that returned in the last step
    workload \* the requests the clients of this run make

vars == <<stmts, disk, store, procs, calls, runs, edits, ret, workload>>

StmtIds == 1..MaxStatements
CallIds == 1..MaxCalls

NoMessage == "(null)"

NoData == [transactions |-> <<>>, summary |-> calculateSummary(<<>>),
           format |-> "", metadata |-> FALSE]

\* A row that was never created (row = "none") or was deleted.
NoStatement(row) ==
    [row |-> row, userId |-> "", name |-> "", mimetype |-> "", status |-> "",
     hasData |-> FALSE, extractedData |-> NoData, transactionCount |-> 0,
     errorMessage |-> NoMessage, bankName |-> <<>>]

IdleProc == [pc |-> "idle", userId |-> "", result |-> NoData, error |-> ""]

IdleCall == [op |-> "idle", pc |-> "idle"]

NoRet == [op |-> "none"]

\* prisma.bankStatement.findFirst({ where: { id, userId } })
getBankStatementById(id, userId) ==
    IF stmts[id].row = "present" /\ stmts[id].userId = userId
    THEN stmts[id]
    ELSE Undefined

\* Whether prisma.bankStatement.update / delete ({ where: { id, userId } })
\* finds its row; it throws when it does not.
rowFound(id, userId) == getBankStatementById(id, userId) # Undefined

RecordNotFound == "Record to update not found."

\* JSON.stringify of a number: NaN is written as null.
jsonNumber(n) == IF IsNaN(n) THEN JsonNullNumber ELSE n

\* prepareJsonField followed by parseJsonField: what a later read of the
\* stored extractedData returns.
prepareJsonField(extractedData) ==
    [extractedData EXCEPT
        !.transactions = [i \in 1..Len(@) |-> [@[i] EXCEPT !.amount = jsonNumber(@)]],
        !.summary = [@ EXCEPT !.totalDebits = jsonNumber(@),
                              !.totalCredits = jsonNumber(@),
                              !.netAmount = jsonNumber(@)]]

\* updateBankStatementStatus(id, userId, status, errorMessage): the new row.
updateBankStatementStatus(row, status, errorMessage) ==
    [row EXCEPT !.status = status,
                !.errorMessage = IF errorMessage # NoMessage THEN errorMessage ELSE @]

\* storeExtractedData(id, userId, extractedData, transactionCount): the new row.
storeExtractedData(row, extractedData, transactionCount) ==
    [row EXCEPT !.hasData = TRUE,
                !.extractedData = prepareJsonField(extractedData),
                !.transactionCount = transactionCount,
                !.status = "ready"]

\* updateBankStatement(id, userId, { extractedData }): the new row.
updateBankStatementData(row, extractedData) ==
    [row EXCEPT !.hasData = TRUE, !.extractedData = prepareJsonField(extractedData)]

(***************************************************************************)
(* Hash and duplicate engine: lookups                                      *)
(***************************************************************************)
\* A lookup that does not filter on the user.
findDuplicateTransactionsAnyUser(userId, hashes) ==
    LET found == {t \in store : t.transactionHash \in hashes}
        foundHashes == {t.transactionHash : t \in found}
    IN  {m \in [foundHashes -> {t.id : t \in found}] :
            \A h \in foundHashes :
                \E t \in found : t.transactionHash = h /\ t.id = m[h]}

\* findDuplicateTransactions(userId, hashes): the hash -> id maps the loop
\* over the rows found can build; when several rows carry one hash the row
\* that is set last wins, and the order of the rows is the database's.
findDuplicateTransactions(userId, hashes) ==
    LET found == {t \in store : t.userId = userId /\ t.transactionHash \in hashes}
        foundHashes == {t.transactionHash : t \in found}
    IN  {m \in [foundHashes -> {t.id : t \in found}] :
            \A h \in foundHashes :
                \E t \in found : t.transactionHash = h /\ t.id = m[h]}

\* markDuplicates(userId, transactions) for one map of findDuplicateTransactions.
markDuplicates(transactions, duplicates) ==
    [i \in 1..Len(transactions) |->
        LET tx == transactions[i]
            isDup == tx.hash \in DOMAIN duplicates
        IN  [tx EXCEPT !.isDuplicate = isDup,
                       !.duplicateOf = IF isDup THEN duplicates[tx.hash] ELSE Null]]

hashesOf(transactions) == {transactions[i].hash : i \in 1..Len(transactions)}

(***************************************************************************)
(* Upload and background processing                                        *)
(***************************************************************************)
Init ==
    /\ stmts = [s \in StmtIds |-> NoStatement("none")]
    /\ disk = [s \in StmtIds |-> Undefined]
    /\ procs = [s \in StmtIds |-> IdleProc]
    /\ calls = [c \in CallIds |-> IdleCall]
    /\ runs = [s \in StmtIds |-> 0]
    /\ edits = 0
    /\ ret = NoRet
    /\ workload \in Workloads
    /\ store \in IF workload = Reconciliation THEN SUBSET InvoiceRows ELSE {{}}

validMimeTypes == {"application/pdf", "text/csv", "text/plain"}

\* uploadBankStatement: the file is written, the row is created as pending
\* and the background run is dispatched without being awaited.
uploadBankStatement(userId, file) ==
    \E s \in 1..workload.statements :
        /\ stmts[s].row = "none"
        /\ \A r \in StmtIds : r < s => stmts[r].row # "none"
        /\ IF file.type \notin validMimeTypes /\ ~endsWithCsv(file.name)
           THEN /\ ret' = [op |-> "upload", success |-> FALSE, sid |-> 0,
                           error |-> "Invalid file type. Please upload a PDF or CSV file."]
                /\ UNCHANGED <<stmts, disk, procs>>
           ELSE /\ disk' = [disk EXCEPT ![s] = file]
                /\ stmts' = [stmts EXCEPT ![s] =
                                [NoStatement("present") EXCEPT
                                    !.userId = userId,
                                    !.name = file.name,
                                    !.mimetype = file.type,
                                    !.status = "pending"]]
                /\ procs' = [procs EXCEPT ![s] = [IdleProc EXCEPT !.pc = "start",
                                                                 !.userId = userId]]
                /\ ret' = [op |-> "upload", success |-> TRUE, sid |-> s,
                           status |-> "processing"]
        /\ UNCHANGED <<store, calls, runs, edits, workload>>

Upload == \E u \in workload.uploaders, f \in workload.files : uploadBankStatement(u, f)

\* processBankStatement, line 158: the status becomes processing; a missing
\* row makes the update throw into the catch block.
processSetProcessing(s) ==
    /\ procs[s].pc = "start"
    /\ IF rowFound(s, procs[s].userId)
       THEN /\ stmts' = [stmts EXCEPT ![s] =
                            updateBankStatementStatus(@, "processing", NoMessage)]
            /\ procs' = [procs EXCEPT ![s].pc = "parse"]
       ELSE /\ procs' = [procs EXCEPT ![s].pc = "catch", ![s].error = RecordNotFound]
            /\ UNCHANGED stmts
    /\ ret' = NoRet
    /\ UNCHANGED <<disk, store, calls, runs, edits, workload>>

\* The result of the parser the statement's type selects, lines 176-189.
parseStatement(statement, content, batch, configuredProviders, response) ==
    IF statement.mimetype = "text/csv" \/ endsWithCsv(statement.name)
    THEN parseCSV(content, Undefined, DefaultCurrency, batch)
    ELSE IF validateLLMSettings(configuredProviders) # ""
    THEN [success |-> FALSE, error |-> validateLLMSettings(configuredProviders)]
    ELSE parsePDF(IF content = Undefined THEN 0 ELSE 1, response,
                  DefaultCurrency, batch)

\* processBankStatement, lines 160-193: the row is read and the file parsed.
processParse(s) ==
    /\ procs[s].pc = "parse"
    /\ \E configuredProviders \in 0..1, response \in ProviderResponses,
          statement \in {getBankStatementById(s, procs[s].userId)} :
            IF statement = Undefined
            THEN /\ procs' = [procs EXCEPT ![s].pc = "catch",
                                           ![s].error = "Statement not found"]
                 /\ UNCHANGED runs
            ELSE
            \E result \in {parseStatement(statement, disk[s], <<s, runs[s] + 1>>,
                                          configuredProviders, response)} :
            IF ~result.success
            THEN /\ procs' = [procs EXCEPT ![s].pc = "catch",
                                           ![s].error = IF result.error = ""
                                                        THEN "Parsing failed"
                                                        ELSE result.error]
                 /\ UNCHANGED runs
            ELSE /\ procs' = [procs EXCEPT ![s].pc = "mark", ![s].result = result.data]
                 /\ runs' = [runs EXCEPT ![s] = @ + 1]
    /\ ret' = NoRet
    /\ UNCHANGED <<stmts, disk, store, calls, edits, workload>>

\* processBankStatement, lines 196-198: duplicates are marked against the store.
processMarkDuplicates(s) ==
    /\ procs[s].pc = "mark"
    /\ \E duplicates \in findDuplicateTransactions(procs[s].userId,
                                                   hashesOf(procs[s].result.transactions)) :
        LET marked == markDuplicates(procs[s].result.transactions, duplicates)
        IN  procs' = [procs EXCEPT
                         ![s].pc = IF procs[s].result.metadata THEN "metadata" ELSE "store",
                         ![s].result = [@ EXCEPT !.transactions = marked,
                                                 !.summary.transactionCount = Len(marked)]]
    /\ ret' = NoRet
    /\ UNCHANGED <<stmts, disk, store, calls, runs, edits, workload>>

\* processBankStatement, lines 209-217: the bank metadata of a PDF is stored.
processUpdateMetadata(s) ==
    /\ procs[s].pc = "metadata"
    /\ IF rowFound(s, procs[s].userId)
       THEN /\ stmts' = [stmts EXCEPT ![s].bankName = <<"B", "a", "n", "k">>]
            /\ procs' = [procs EXCEPT ![s].pc = "store"]
       ELSE /\ procs' = [procs EXCEPT ![s].pc = "catch", ![s].error = RecordNotFound]
            /\ UNCHANGED stmts
    /\ ret' = NoRet
    /\ UNCHANGED <<disk, store, calls, runs, edits, workload>>

\* processBankStatement, lines 220-225: the extracted data is stored and the
\* run ends.
processStore(s) ==
    /\ procs[s].pc = "store"
    /\ IF rowFound(s, procs[s].userId)
       THEN /\ stmts' = [stmts EXCEPT ![s] =
                            storeExtractedData(@, procs[s].result,
                                               Len(procs[s].result.transactions))]
            /\ procs' = [procs EXCEPT ![s] = [IdleProc EXCEPT !.pc = "done"]]
            /\ ret' = [op |-> "process", sid |-> s, raised |-> FALSE,
                       outcome |-> "ready", error |-> ""]
       ELSE /\ procs' = [procs EXCEPT ![s].pc = "catch", ![s].error = RecordNotFound,
                                      ![s].result = NoData]
            /\ ret' = NoRet
            /\ UNCHANGED stmts
    /\ UNCHANGED <<disk, store, calls, runs, edits, workload>>

\* A catch block that marks the statement failed without its message.
processCatchSilent(s) ==
    /\ procs[s].pc = "catch"
    /\ IF rowFound(s, procs[s].userId)
       THEN /\ stmts' = [stmts EXCEPT ![s] =
                            updateBankStatementStatus(@, "failed", NoMessage)]
            /\ procs' = [procs EXCEPT ![s] = [IdleProc EXCEPT !.pc = "done"]]
            /\ ret' = [op |-> "process", sid |-> s, raised |-> FALSE,
                       outcome |-> "failed", error |-> procs[s].error]
       ELSE /\ procs' = [procs EXCEPT ![s] = [IdleProc EXCEPT !.pc = "raised"]]
            /\ ret' = [op |-> "process", sid |-> s, raised |-> TRUE,
                       outcome |-> "raised", error |-> RecordNotFound]
            /\ UNCHANGED stmts
    /\ UNCHANGED <<disk, store, calls, runs, edits, workload>>

\* processBankStatement, lines 226-234: the catch block records the failure;
\* its own update throws when the row is missing and the run rejects.
processCatch(s) ==
    /\ procs[s].pc = "catch"
    /\ IF rowFound(s, procs[s].userId)
       THEN /\ stmts' = [stmts EXCEPT ![s] =
                            updateBankStatementStatus(@, "failed", procs[s].error)]
            /\ procs' = [procs EXCEPT ![s] = [IdleProc EXCEPT !.pc = "done"]]
            /\ ret' = [op |-> "process", sid |-> s, raised |-> FALSE,
                       outcome |-> "failed", error |-> procs[s].error]
       ELSE /\ procs' = [procs EXCEPT ![s] = [IdleProc EXCEPT !.pc = "raised"]]
            /\ ret' = [op |-> "process", sid |-> s, raised |-> TRUE,
                       outcome |-> "raised", error |-> RecordNotFound]
            /\ UNCHANGED stmts
    /\ UNCHANGED <<disk, store, calls, runs, edits, workload>>

Process ==
    \E s \in StmtIds :
        \/ processSetProcessing(s)
        \/ processParse(s)
        \/ processMarkDuplicates(s)
        \/ processUpdateMetadata(s)
        \/ processStore(s)
        \/ processCatch(s)

\* A server action op may start in slot c: the workload has it, and c is the
\* first free slot of those the workload keeps busy at a time.
mayStart(c, op) ==
    /\ op \in workload.ops
    /\ c <= workload.calls
    /\ calls[c].op = "idle"
    /\ \A b \in 1..(c - 1) : calls[b].op # "idle"

(***************************************************************************)
(* Import committer                                                        *)
(***************************************************************************)
\* A record whose total keeps the extracted amount's sign.
importRecordUnsigned(extracted, userId, statementId, options, id) ==
    [id |-> id,
     userId |-> userId,
     name |-> sliceTo(extracted.description, 100),
     description |-> extracted.description,
     total |-> extracted.amount,
     currencyCode |-> extracted.currency,
     type |-> IF extracted.type = "debit" THEN "expense" ELSE "income",
     issuedAt |-> extracted.date,
     sourceType |-> "bank-import",
     sourceId |-> statementId,
     transactionHash |-> extracted.hash,
     categoryCode |-> options.defaultCategory,
     projectCode |-> options.defaultProject]

\* The data of tx.transaction.create, lines 439-452, with the id the
\* database gives the new row.
importRecord(extracted, userId, statementId, options, id) ==
    [id |-> id,
     userId |-> userId,
     name |-> sliceTo(extracted.description, 100),
     description |-> extracted.description,
     total |-> IF extracted.type = "debit" THEN jsNeg(extracted.amount)
               ELSE extracted.amount,
     currencyCode |-> extracted.currency,
     type |-> IF extracted.type = "debit" THEN "expense" ELSE "income",
     issuedAt |-> extracted.date,
     sourceType |-> "bank-import",
     sourceId |-> statementId,
     transactionHash |-> extracted.hash,
     categoryCode |-> options.defaultCategory,
     projectCode |-> options.defaultProject]

\* The ids of the next n rows of the transactions table.
newIds(n) == [i \in 1..n |-> <<"tx", Cardinality(store) + i>>]

\* The rows the loop of lines 437-455 creates for toImport.
importRecords(toImport, userId, statementId, options) ==
    LET ids == newIds(Len(toImport))
    IN  [i \in 1..Len(toImport) |->
            importRecord(toImport[i], userId, statementId, options, ids[i])]

\* A commit that keeps the rows created before the failing creation.
runTransactionPartial(records, failAt) ==
    {records[i] : i \in 1..(IF failAt = 0 THEN Len(records) ELSE failAt - 1)}

\* prisma.$transaction over the creations: the rows the table gains.
\* failAt = 0 when every creation succeeds, else the position of the creation
\* that throws, which rolls the earlier ones back.
runTransaction(records, failAt) ==
    IF failAt = 0 THEN {records[i] : i \in 1..Len(records)} ELSE {}

\* A selection that ignores the selected flag.
selectToImportAll(transactions, given, transactionIds, skipDuplicates) ==
    LET wanted == IF given /\ transactionIds # {}
                  THEN SelectSeq(transactions, LAMBDA t : t.id \in transactionIds)
                  ELSE transactions
    IN  IF skipDuplicates
        THEN [toImport |-> SelectSeq(wanted, LAMBDA t : ~t.isDuplicate),
              skippedDuplicates |-> Len(SelectSeq(wanted, LAMBDA t : t.isDuplicate))]
        ELSE [toImport |-> wanted, skippedDuplicates |-> 0]

\* The selection of lines 407-420: [toImport, skippedDuplicates].
selectToImport(transactions, given, transactionIds, skipDuplicates) ==
    LET selected == SelectSeq(transactions, LAMBDA t : t.selected)
        wanted == IF given /\ transactionIds # {}
                  THEN SelectSeq(selected, LAMBDA t : t.id \in transactionIds)
                  ELSE selected
    IN  IF skipDuplicates
        THEN [toImport |-> SelectSeq(wanted, LAMBDA t : ~t.isDuplicate),
              skippedDuplicates |-> Len(SelectSeq(wanted, LAMBDA t : t.isDuplicate))]
        ELSE [toImport |-> wanted, skippedDuplicates |-> 0]

NoOptions == [defaultCategory |-> Null, defaultProject |-> Null]

\* An import in flight; queue and all serve importAllBankStatements.
ImportCall(userId, sid, given, transactionIds, skipDuplicates, queue, all) ==
    [op |-> "import", pc |-> "read", userId |-> userId, sid |-> sid,
     given |-> given, transactionIds |-> transactionIds,
     skipDuplicates |-> skipDuplicates, read |-> <<>>, toImport |-> <<>>,
     skippedDuplicates |-> 0, created |-> <<>>, queue |-> queue, all |-> all]

\* What a returning importBankTransactions leaves of its caller: nothing, or
\* the loop of importAllBankStatements at its next statement.
afterImport(call) ==
    IF call.queue = <<>> THEN IdleCall
    ELSE ImportCall(call.userId, Head(call.queue), FALSE, {}, call.skipDuplicates,
                    Tail(call.queue), TRUE)

ImportResult(call, success, error, createdIds) ==
    [op |-> "import", sid |-> call.sid, userId |-> call.userId,
     all |-> call.all, allDone |-> call.all /\ call.queue = <<>>,
     given |-> call.given, transactionIds |-> call.transactionIds,
     skipDuplicates |-> call.skipDuplicates,
     read |-> call.read, toImport |-> call.toImport, created |-> call.created,
     success |-> success, error |-> error,
     importedCount |-> Len(createdIds),
     skippedDuplicates |-> call.skippedDuplicates,
     resultIds |-> createdIds]

\* importBankTransactions, lines 397-431, for the call in slot c: the row is
\* read, the transactions to import are selected.
importRead(c, call) ==
    \E statement \in {getBankStatementById(call.sid, call.userId)} :
        IF statement = Undefined \/ ~statement.hasData
        THEN /\ ret' = ImportResult(call, FALSE, "Statement not found or not processed", <<>>)
             /\ calls' = [calls EXCEPT ![c] = afterImport(call)]
        ELSE
        \E chosen \in {selectToImport(statement.extractedData.transactions, call.given,
                                      call.transactionIds, call.skipDuplicates)} :
        \E read \in {[call EXCEPT !.read = statement.extractedData.transactions,
                                  !.toImport = chosen.toImport,
                                  !.skippedDuplicates = chosen.skippedDuplicates]} :
            IF Len(chosen.toImport) = 0
            THEN /\ ret' = ImportResult(read, TRUE, "", <<>>)
                 /\ calls' = [calls EXCEPT ![c] = afterImport(call)]
            ELSE /\ ret' = NoRet
                 /\ calls' = [calls EXCEPT ![c] = [read EXCEPT !.pc = "transaction"]]

IdChoices(s) ==
    LET ids == {stmts[s].extractedData.transactions[i].id :
                    i \in 1..Len(stmts[s].extractedData.transactions)}
    IN  {[given |-> FALSE, ids |-> {}]}
            \cup (IF workload.subsets
                  THEN {[given |-> TRUE, ids |-> I] : I \in SUBSET ids}
                  ELSE {})

ImportStart(c) ==
    /\ mayStart(c, "import")
    /\ Cardinality(store) < workload.store
    /\ \E u \in workload.callers, s \in StmtIds,
          skipDuplicates \in workload.skipDuplicates :
        \E choice \in IdChoices(s) :
            \E call \in {ImportCall(u, s, choice.given, choice.ids, skipDuplicates,
                                    <<>>, FALSE)} :
                importRead(c, call)
    /\ UNCHANGED <<stmts, disk, store, procs, runs, edits, workload>>

\* The ready statements of a user, newest first (orderBy createdAt desc).
RECURSIVE readyStatements(_, _)
readyStatements(userId, s) ==
    IF s = 0 THEN <<>>
    ELSE (IF getBankStatementById(s, userId) # Undefined /\ stmts[s].status = "ready"
          THEN <<s>> ELSE <<>>) \o readyStatements(userId, s - 1)

\* importAllBankStatements, lines 487-502: the ready statements are listed.
ImportAllStart(c) ==
    /\ mayStart(c, "importAll")
    /\ Cardinality(store) < workload.store
    /\ \E u \in workload.callers, skipDuplicates \in workload.skipDuplicates :
        LET ready == readyStatements(u, MaxStatements)
        IN  IF ready = <<>>
            THEN /\ ret' = [op |-> "importAll", userId |-> u, success |-> TRUE,
                            statementCount |-> 0]
                 /\ UNCHANGED calls
            ELSE /\ ret' = NoRet
                 /\ calls' = [calls EXCEPT ![c] =
                                 ImportCall(u, Head(ready), FALSE, {}, skipDuplicates,
                                            Tail(ready), TRUE)]
    /\ UNCHANGED <<stmts, disk, store, procs, runs, edits, workload>>

\* The loop of importAllBankStatements, line 510, calls importBankTransactions.
ImportAllNext(c) ==
    /\ calls[c].op = "import"
    /\ calls[c].pc = "read"
    /\ \E call \in {calls[c]} : importRead(c, call)
    /\ UNCHANGED <<stmts, disk, store, procs, runs, edits, workload>>

\* importBankTransactions, lines 434-456 and the catch of 469-475: the
\* creations run in one database transaction.
ImportTransaction(c) ==
    /\ calls[c].op = "import"
    /\ calls[c].pc = "transaction"
    /\ Cardinality(store) + Len(calls[c].toImport) <= workload.store
    /\ \E failAt \in 0..Len(calls[c].toImport), call \in {calls[c]} :
        \E records \in {importRecords(call.toImport, call.userId, call.sid, NoOptions)} :
        LET pushed == IF failAt = 0 THEN records ELSE SubSeq(records, 1, failAt - 1)
            tried == [call EXCEPT !.created = [i \in 1..Len(pushed) |-> pushed[i].id]]
        IN  /\ store' = store \cup runTransaction(records, failAt)
            /\ IF failAt = 0
               THEN /\ calls' = [calls EXCEPT ![c] = [tried EXCEPT !.pc = "status"]]
                    /\ ret' = NoRet
               ELSE /\ calls' = [calls EXCEPT ![c] = afterImport(call)]
                    /\ ret' = ImportResult(tried, FALSE, "Transaction create failed", <<>>)
    /\ UNCHANGED <<stmts, disk, procs, runs, edits, workload>>

\* importBankTransactions, lines 458-475: the statement becomes imported and
\* the call returns; when the update throws, the catch returns the error.
ImportSetImported(c) ==
    /\ calls[c].op = "import"
    /\ calls[c].pc = "status"
    /\ LET call == calls[c]
       IN  /\ IF rowFound(call.sid, call.userId)
              THEN /\ stmts' = [stmts EXCEPT ![call.sid] =
                                   updateBankStatementStatus(@, "imported", NoMessage)]
                   /\ ret' = ImportResult(call, TRUE, "", call.created)
              ELSE /\ UNCHANGED stmts
                   /\ ret' = ImportResult(call, FALSE, RecordNotFound, <<>>)
           /\ calls' = [calls EXCEPT ![c] = afterImport(call)]
    /\ UNCHANGED <<disk, store, procs, runs, edits, workload>>

(***************************************************************************)
(* Review edits                                                            *)
(***************************************************************************)
\* { ...transaction, ...updates, edited: true }
applyUpdates(tx, updates) ==
    [f \in DOMAIN tx |->
        IF f = "edited" THEN TRUE
        ELSE IF f \in DOMAIN updates THEN updates[f]
        ELSE tx[f]]

\* An update that leaves the summary as it was read.
updatedDataStale(extractedData, txIndex, updates) ==
    [extractedData EXCEPT !.transactions[txIndex] = applyUpdates(@, updates)]

\* updateExtractedTransaction, lines 314-333: the data with transaction
\* txIndex updated and the totals of the summary recalculated.
updatedData(extractedData, txIndex, updates) ==
    LET transactions == [extractedData.transactions EXCEPT
                            ![txIndex] = applyUpdates(@, updates)]
        totalDebits == sumAmounts(SelectSeq(transactions, LAMBDA t : t.type = "debit"))
        totalCredits == sumAmounts(SelectSeq(transactions, LAMBDA t : t.type = "credit"))
    IN  [extractedData EXCEPT
            !.transactions = transactions,
            !.summary = [@ EXCEPT !.totalDebits = totalDebits,
                                  !.totalCredits = totalCredits,
                                  !.netAmount = jsSub(totalCredits, totalDebits)]]

\* transactions.findIndex((t) => t.id === transactionId), 0 for -1
findIndexById(transactions, transactionId) ==
    LET hits == {i \in 1..Len(transactions) : transactions[i].id = transactionId}
    IN  IF hits = {} THEN 0 ELSE CHOOSE i \in hits : \A j \in hits : i <= j

\* The field overrides a review submits.
Updates ==
    {[selected |-> FALSE],
     [amount |-> 700, type |-> "credit"],
     [amount |-> 0 - 700],
     [date |-> <<"2", "0", "2", "3", "-", "1", "2", "-", "3", "1">>]}

\* A transaction id no extraction has produced.
UnknownId == <<0, 0, 0>>

TransactionIdsOf(s) ==
    {stmts[s].extractedData.transactions[i].id :
        i \in 1..Len(stmts[s].extractedData.transactions)}

\* updateExtractedTransaction, lines 297-333: the row is read and the
\* updated data prepared.
EditStart(c) ==
    /\ mayStart(c, "edit")
    /\ edits < workload.edits
    /\ \E u \in workload.callers, s \in StmtIds, updates \in Updates :
        \E transactionId \in TransactionIdsOf(s) \cup {UnknownId} :
            \E statement \in {getBankStatementById(s, u)} :
                IF statement = Undefined \/ ~statement.hasData
                THEN /\ ret' = [op |-> "edit", sid |-> s, success |-> FALSE,
                                raised |-> FALSE, error |-> "Statement not found"]
                     /\ UNCHANGED <<calls, edits>>
                ELSE
                \E txIndex \in {findIndexById(statement.extractedData.transactions,
                                              transactionId)} :
                IF txIndex = 0
                THEN /\ ret' = [op |-> "edit", sid |-> s, success |-> FALSE,
                                raised |-> FALSE, error |-> "Transaction not found"]
                     /\ UNCHANGED <<calls, edits>>
                ELSE
                \E data \in {updatedData(statement.extractedData, txIndex, updates)} :
                     /\ ret' = NoRet
                     /\ edits' = edits + 1
                     /\ calls' = [calls EXCEPT ![c] =
                                     [op |-> "edit", pc |-> "write", userId |-> u,
                                      sid |-> s, data |-> data,
                                      updatedTx |-> data.transactions[txIndex]]]
    /\ UNCHANGED <<stmts, disk, store, procs, runs, workload>>

\* updateExtractedTransaction, lines 335-338: the data is written back.
EditWrite(c) ==
    /\ calls[c].op = "edit"
    /\ calls[c].pc = "write"
    /\ LET call == calls[c]
       IN  IF rowFound(call.sid, call.userId)
           THEN /\ stmts' = [stmts EXCEPT ![call.sid] =
                                updateBankStatementData(@, call.data)]
                /\ ret' = [op |-> "edit", sid |-> call.sid, success |-> TRUE,
                           raised |-> FALSE, error |-> "", data |-> call.updatedTx]
           ELSE /\ UNCHANGED stmts
                /\ ret' = [op |-> "edit", sid |-> call.sid, success |-> FALSE,
                           raised |-> TRUE, error |-> RecordNotFound]
    /\ calls' = [calls EXCEPT ![c] = IdleCall]
    /\ UNCHANGED <<disk, store, procs, runs, edits, workload>>

(***************************************************************************)
(* Column remap                                                            *)
(***************************************************************************)
\* mapCSVColumns, lines 348-367: the row is read and the file parsed again
\* with the mapping.
RemapStart(c) ==
    /\ mayStart(c, "remap")
    /\ \E u \in workload.callers, s \in StmtIds, mapping \in Mappings :
        /\ runs[s] < workload.extractions
        /\ \E statement \in {getBankStatementById(s, u)} :
               IF statement = Undefined
               THEN /\ ret' = [op |-> "remap", sid |-> s, success |-> FALSE,
                               raised |-> FALSE, error |-> "Statement not found"]
                    /\ UNCHANGED <<calls, runs>>
               ELSE IF statement.mimetype # "text/csv" /\ ~endsWithCsv(statement.name)
               THEN /\ ret' = [op |-> "remap", sid |-> s, success |-> FALSE,
                               raised |-> FALSE,
                               error |-> "Column mapping only applies to CSV files"]
                    /\ UNCHANGED <<calls, runs>>
               ELSE
               \E result \in {parseCSV(disk[s], mapping, DefaultCurrency,
                                       <<s, runs[s] + 1>>)} :
               IF ~result.success
               THEN /\ ret' = [op |-> "remap", sid |-> s, success |-> FALSE,
                               raised |-> FALSE, error |-> result.error]
                    /\ UNCHANGED <<calls, runs>>
               ELSE /\ ret' = NoRet
                    /\ runs' = [runs EXCEPT ![s] = @ + 1]
                    /\ calls' = [calls EXCEPT ![c] =
                                    [op |-> "remap", pc |-> "mark", userId |-> u,
                                     sid |-> s, data |-> result.data]]
    /\ UNCHANGED <<stmts, disk, store, procs, edits, workload>>

\* mapCSVColumns, lines 370-371: duplicates are marked against the store.
RemapMarkDuplicates(c) ==
    /\ calls[c].op = "remap"
    /\ calls[c].pc = "mark"
    /\ \E duplicates \in findDuplicateTransactions(calls[c].userId,
                                                   hashesOf(calls[c].data.transactions)) :
        calls' = [calls EXCEPT
                     ![c].pc = "store",
                     ![c].data.transactions = markDuplicates(@, duplicates)]
    /\ ret' = NoRet
    /\ UNCHANGED <<stmts, disk, store, procs, runs, edits, workload>>

\* mapCSVColumns, lines 374-376: the data is stored and the call returns; the
\* update throws out of the action when the row is missing.
RemapStore(c) ==
    /\ calls[c].op = "remap"
    /\ calls[c].pc = "store"
    /\ LET call == calls[c]
       IN  IF rowFound(call.sid, call.userId)
           THEN /\ stmts' = [stmts EXCEPT ![call.sid] =
                                storeExtractedData(@, call.data,
                                                   Len(call.data.transactions))]
                /\ ret' = [op |-> "remap", sid |-> call.sid, success |-> TRUE,
                           raised |-> FALSE, error |-> "",
                           transactionCount |-> Len(call.data.transactions)]
           ELSE /\ UNCHANGED stmts
                /\ ret' = [op |-> "remap", sid |-> call.sid, success |-> FALSE,
                           raised |-> TRUE, error |-> RecordNotFound]
    /\ calls' = [calls EXCEPT ![c] = IdleCall]
    /\ UNCHANGED <<disk, store, procs, runs, edits, workload>>

(***************************************************************************)
(* Delete                                                                  *)
(***************************************************************************)
\* deleteBankStatement, lines 135-145: the row is read and the file unlinked.
DeleteStart(c) ==
    /\ mayStart(c, "delete")
    /\ \E u \in workload.callers, s \in StmtIds :
        IF getBankStatementById(s, u) = Undefined
        THEN /\ ret' = [op |-> "delete", sid |-> s, userId |-> u, success |-> FALSE,
                        raised |-> FALSE, error |-> "Statement not found"]
             /\ UNCHANGED <<calls, disk>>
        ELSE /\ ret' = NoRet
             /\ disk' = [disk EXCEPT ![s] = Undefined]
             /\ calls' = [calls EXCEPT ![c] =
                             [op |-> "delete", pc |-> "delete", userId |-> u, sid |-> s]]
    /\ UNCHANGED <<stmts, store, procs, runs, edits, workload>>

\* A delete that takes the transactions imported from the statement with it.
DeleteRecordCascade(c) ==
    /\ calls[c].op = "delete"
    /\ calls[c].pc = "delete"
    /\ LET call == calls[c]
       IN  IF rowFound(call.sid, call.userId)
           THEN /\ stmts' = [stmts EXCEPT ![call.sid] = NoStatement("deleted")]
                /\ store' = {t \in store : t.sourceId # call.sid}
                /\ ret' = [op |-> "delete", sid |-> call.sid, userId |-> call.userId,
                           success |-> TRUE, raised |-> FALSE, error |-> ""]
           ELSE /\ UNCHANGED <<stmts, store>>
                /\ ret' = [op |-> "delete", sid |-> call.sid, userId |-> call.userId,
                           success |-> FALSE, raised |-> TRUE, error |-> RecordNotFound]
    /\ calls' = [calls EXCEPT ![c] = IdleCall]
    /\ UNCHANGED <<disk, procs, runs, edits, workload>>

\* deleteBankStatement, lines 148-150: the row is deleted; the delete throws
\* when the row is already gone.
DeleteRecord(c) ==
    /\ calls[c].op = "delete"
    /\ calls[c].pc = "delete"
    /\ LET call == calls[c]
       IN  IF rowFound(call.sid, call.userId)
           THEN /\ stmts' = [stmts EXCEPT ![call.sid] = NoStatement("deleted")]
                /\ ret' = [op |-> "delete", sid |-> call.sid, userId |-> call.userId,
                           success |-> TRUE,
                           raised |-> FALSE, error |-> ""]
           ELSE /\ UNCHANGED stmts
                /\ ret' = [op |-> "delete", sid |-> call.sid, userId |-> call.userId,
                           success |-> FALSE,
                           raised |-> TRUE, error |-> RecordNotFound]
    /\ calls' = [calls EXCEPT ![c] = IdleCall]
    /\ UNCHANGED <<disk, store, procs, runs, edits, workload>>

(***************************************************************************)
(* Hashing of one transaction by the two pipelines                         *)
(***************************************************************************)
\* The transactions hashed: a date, the same date with a time of day or
\* another date; an amount as the cell of a CSV file and as the number of a
\* provider's answer, in thousandths; a description in several spellings.
HashInputs ==
    [date : {<<"2", "0", "2", "4", "-", "0", "1", "-", "0", "5">>,
             <<"2", "0", "2", "4", "-", "0", "1", "-", "0", "5", "T", "1", "0", ":", "0", "0">>,
             <<"2", "0", "2", "4", "-", "0", "1", "-", "0", "6">>},
     amount : {[cell |-> <<"1", "2", ".", "5", "0">>, milli |-> 12500],
               [cell |-> <<"3", ".", "0", "0">>, milli |-> 3000]},
     description : {<<"R", "e", "n", "t">>, <<"r", "e", "n", "t">>,
                    <<" ", "R", "E", "N", "T", " ">>,
                    <<"R", "e", "n", "t", " ", "\t", "p", "a", "i", "d">>,
                    <<"r", "e", "n", "t", " ", "p", "a", "i", "d">>,
                    <<"P", "a", "y">>}]

MappingPlain ==
    [dateColumn |-> 0, descriptionColumn |-> 1, amountColumn |-> 2,
     typeColumn |-> NoColumn, currencyColumn |-> NoColumn]

\* generateTransactionHash and normalizeDescription applied to two inputs.
\* csv is the transaction parseCSV makes of the first written as a row
\* (part_010, lines 619-657, hash at 645), ai the transaction parsePDF makes
\* of the second returned by the provider (lines 162-180, hash at 165).
\* The functions keep no state: one application per behaviour.
HashTransaction(c) ==
    /\ mayStart(c, "hash")
    /\ ret = NoRet
    /\ \E first \in HashInputs, second \in HashInputs :
        \E csv \in {extractRow(<<first.date, first.description, first.amount.cell>>,
                               MappingPlain, DefaultCurrency, <<0, 1, 1>>)},
           ai \in {mapProviderTransactions(<<[date |-> second.date,
                                              description |-> second.description,
                                              amountMilli |-> second.amount.milli,
                                              type |-> "debit"]>>,
                                           DefaultCurrency, <<0, 2>>)[1]} :
            ret' = [op |-> "hash",
                    first |-> first,
                    second |-> second,
                    hashFirst |-> generateTransactionHash(first.date, csv.amount,
                                                          first.description),
                    hashSecond |-> generateTransactionHash(second.date, ai.amount,
                                                           second.description),
                    normalized |-> normalizeDescription(first.description),
                    renormalized |-> normalizeDescription(
                                         normalizeDescription(first.description)),
                    csv |-> csv,
                    ai |-> ai]
    /\ UNCHANGED <<stmts, disk, store, procs, calls, runs, edits, workload>>

(***************************************************************************)
(* Field parsing                                                           *)
(***************************************************************************)
\* Amounts as a statement writes them: a sign (none, a leading minus,
\* wrapping parentheses), a currency symbol, the groups of the whole part,
\* the digits after the decimal separator (none: no separator), in the US
\* style (1,234.56) or the European one (1.234,56).
AmountInputs ==
    [sign : {"none", "minus", "parentheses"},
     symbol : {<<>>, <<"$">>, <<"$", " ">>},
     groups : {<<<<"0">>>>, <<<<"5", "0">>>>, <<<<"1">>, <<"2", "3", "4">>>>},
     fraction : {<<>>, <<"5">>, <<"5", "6">>, <<"0", "0">>, <<"5", "6", "7">>,
                 <<"0", "0", "4">>},
     style : {"us", "european"}]

\* parseAmount(amountStr, defaultType) applied to one amount as written.
ParseAmount(c) ==
    /\ mayStart(c, "amount")
    /\ ret = NoRet
    /\ \E written \in AmountInputs, defaultType \in {"debit", "credit"} :
        LET group == IF written.style = "us" THEN "," ELSE "."
            decimal == IF written.style = "us" THEN "." ELSE ","
            whole == IF Len(written.groups) = 1 THEN written.groups[1]
                     ELSE written.groups[1] \o <<group>> \o written.groups[2]
            body == written.symbol \o whole
                      \o (IF written.fraction = <<>> THEN <<>>
                          ELSE <<decimal>> \o written.fraction)
            amountStr == IF written.sign = "minus" THEN <<"-">> \o body
                         ELSE IF written.sign = "parentheses"
                              THEN <<"(">> \o body \o <<")">>
                              ELSE body
        IN  ret' = [op |-> "amount", written |-> written, amountStr |-> amountStr,
                    defaultType |-> defaultType,
                    result |-> parseAmount(amountStr, defaultType)]
    /\ UNCHANGED <<stmts, disk, store, procs, calls, runs, edits, workload>>

\* detectDelimiter(content), part_010 lines 407-427: content.split("\n"),
\* the first 10 lines, the number of columns of each line under each
\* candidate, the consistent candidate of the highest count, the first of
\* COMMON_DELIMITERS among equals (the sort is stable).
detectDelimiter(content) ==
    LET COMMON_DELIMITERS == <<",", ";", "\t", "|">>
        lineOf(i) == 1 + Cardinality({j \in 1..(i - 1) : content[j] = "\n"})
        split == 1 + Cardinality({j \in 1..Len(content) : content[j] = "\n"})
        lines == IF split < 10 THEN split ELSE 10
        counts(delimiter) ==
            [k \in 1..lines |->
                1 + Cardinality({i \in 1..Len(content) :
                                    content[i] = delimiter /\ lineOf(i) = k})]
        isConsistent(delimiter) ==
            \A k \in 1..lines : counts(delimiter)[k] = counts(delimiter)[1]
                                  /\ counts(delimiter)[k] > 1
        scores == {d \in 1..4 : isConsistent(COMMON_DELIMITERS[d])}
    IN  IF scores = {} THEN ","
        ELSE COMMON_DELIMITERS[
                 CHOOSE d \in scores :
                    \A e \in scores :
                       \/ counts(COMMON_DELIMITERS[d])[1] > counts(COMMON_DELIMITERS[e])[1]
                       \/ /\ counts(COMMON_DELIMITERS[d])[1] = counts(COMMON_DELIMITERS[e])[1]
                          /\ d <= e]

\* detectDelimiter applied to one file: n lines of cols cells separated by
\* a delimiter, the first cell holding another candidate or none (""), the
\* last line one cell short when ragged, a newline after the last line
\* when trailing.
DetectDelimiter(c) ==
    /\ mayStart(c, "delimiter")
    /\ ret = NoRet
    /\ \E delimiter \in {",", ";", "\t", "|"}, other \in {"", ",", "|"},
          n \in {1, 2, 10, 11}, cols \in 1..3, ragged \in BOOLEAN, trailing \in BOOLEAN :
        /\ other # delimiter
        /\ ragged => (n >= 2 /\ cols >= 2)
        /\ LET first == IF other = "" THEN <<"a">> ELSE <<"a", other, "a">>
               line(m) == first \o [i \in 1..(2 * (m - 1)) |->
                                       IF i % 2 = 1 THEN delimiter ELSE "b"]
               width == Len(line(cols)) + 1
               before == [i \in 1..((n - 1) * width) |->
                             IF i % width = 0 THEN "\n" ELSE line(cols)[i % width]]
               content == before \o line(IF ragged THEN cols - 1 ELSE cols)
                            \o (IF trailing THEN <<"\n">> ELSE <<>>)
           IN  ret' = [op |-> "delimiter", delimiter |-> delimiter, other |-> other,
                       lines |-> n, cols |-> cols, ragged |-> ragged,
                       trailing |-> trailing, content |-> content,
                       result |-> detectDelimiter(content)]
    /\ UNCHANGED <<stmts, disk, store, procs, calls, runs, edits, workload>>

\* One pass of the row loop of parseCSV (part_010, lines 619-657) over a
\* row of five cells under a mapping that names all five columns: the
\* date, the type or the currency is the column of index 0.
ExtractRow(c) ==
    /\ mayStart(c, "row")
    /\ ret = NoRet
    /\ \E layout \in {"date", "type", "currency"},
          amountStr \in {<<"-", "5", "0", ".", "0", "0">>, <<"1", "2", ".", "5", "0">>},
          typeStr \in {<<"c", "r", "e", "d", "i", "t">>, <<"C", "R", "E", "D", "I", "T">>, <<"c">>, <<"C", "r">>, <<"d", "e", "b", "i", "t">>, <<"D">>, <<"d", "b">>, <<"x">>},
          currency \in {<<"U", "S", "D">>, <<>>} :
        LET dateStr == <<"2", "0", "2", "4", "-", "0", "1", "-", "0", "5">>
            description == <<"R", "e", "n", "t">>
            row == IF layout = "date"
                   THEN <<dateStr, description, amountStr, typeStr, currency>>
                   ELSE IF layout = "type"
                   THEN <<typeStr, dateStr, description, amountStr, currency>>
                   ELSE <<currency, dateStr, description, amountStr, typeStr>>
            columnMapping ==
                   IF layout = "date"
                   THEN [dateColumn |-> 0, descriptionColumn |-> 1, amountColumn |-> 2,
                         typeColumn |-> 3, currencyColumn |-> 4]
                   ELSE IF layout = "type"
                   THEN [dateColumn |-> 1, descriptionColumn |-> 2, amountColumn |-> 3,
                         typeColumn |-> 0, currencyColumn |-> 4]
                   ELSE [dateColumn |-> 1, descriptionColumn |-> 2, amountColumn |-> 3,
                         typeColumn |-> 4, currencyColumn |-> 0]
        IN  ret' = [op |-> "row", row |-> row, columnMapping |-> columnMapping,
                    transaction |-> extractRow(row, columnMapping, DefaultCurrency,
                                               <<0, 1, 1>>)]
    /\ UNCHANGED <<stmts, disk, store, procs, calls, runs, edits, workload>>

\* Dates of the year 2024 as a statement writes them: two numbers of one
\* or two digits before the year, separated by "/", "-" or ".", or two
\* numbers of two digits after the year and "-".
DateInputs ==
    [order : {"dmy"}, separator : {"/", "-", "."},
     first : {<<"1">>, <<"0", "1">>, <<"0", "2">>, <<"1", "2">>, <<"1", "3">>,
              <<"3", "0">>, <<"3", "1">>, <<"4", "5">>},
     second : {<<"1">>, <<"0", "1">>, <<"0", "2">>, <<"1", "2">>, <<"1", "3">>,
               <<"3", "0">>, <<"3", "1">>, <<"4", "5">>}]
    \cup
    [order : {"ymd"}, separator : {"-"},
     first : {<<"0", "1">>, <<"0", "2">>, <<"1", "2">>, <<"1", "3">>, <<"9", "9">>},
     second : {<<"0", "1">>, <<"1", "2">>, <<"3", "0">>, <<"3", "1">>, <<"9", "9">>}]

\* parseDate(dateStr, preferEuropean) applied to one date as written.
ParseDate(c) ==
    /\ mayStart(c, "date")
    /\ ret = NoRet
    /\ \E written \in DateInputs, preferEuropean \in BOOLEAN :
        LET year == <<"2", "0", "2", "4">>
            dateStr == IF written.order = "ymd"
                       THEN year \o <<written.separator>> \o written.first
                              \o <<written.separator>> \o written.second
                       ELSE written.first \o <<written.separator>> \o written.second
                              \o <<written.separator>> \o year
        IN  ret' = [op |-> "date", written |-> written, dateStr |-> dateStr,
                    preferEuropean |-> preferEuropean,
                    result |-> parseDate(dateStr, preferEuropean)]
    /\ UNCHANGED <<stmts, disk, store, procs, calls, runs, edits, workload>>

(***************************************************************************)
(* Provider fallback                                                       *)
(***************************************************************************)
\* The entries of settings.providers: two providers with a key and a model,
\* one without a key, one without a model.
LLMConfigs ==
    {[provider |-> "openai", apiKey |-> "sk", model |-> "gpt-4o"],
     [provider |-> "google", apiKey |-> "gk", model |-> "gemini-2.0-flash"],
     [provider |-> "mistral", apiKey |-> "", model |-> "mistral-small-latest"],
     [provider |-> "ollama", apiKey |-> "http://localhost:11434", model |-> ""]}

\* !config.apiKey || !config.model is false
isConfigured(config) == config.apiKey # "" /\ config.model # ""

\* The messages of the errors a provider's client throws.
ProviderErrors ==
    {<<"4", "0", "4">>,
     <<"4", "0", "1", " ", "I", "n", "c", "o", "r", "r", "e", "c", "t", " ", "A", "P", "I", " ", "k", "e", "y">>,
     <<"4", "2", "9">>,
     <<"i", "n", "s", "u", "f", "f", "i", "c", "i", "e", "n", "t", " ", "q", "u", "o", "t", "a">>,
     <<"t", "i", "m", "e", "o", "u", "t">>,
     <<"A", "P", "I", " ", "k", "e", "y", " ", "n", "o", "t", " ", "f", "o", "u", "n", "d">>}

\* formatModelError: the message for a failure, by the first group of
\* patterns the original error contains. category names the template of the
\* message; the original error is part of the last template only.
formatModelError(provider, model, originalError) ==
    IF \/ includes(originalError, <<"d", "o", "e", "s", " ", "n", "o", "t", " ", "s", "u", "p", "p", "o", "r", "t", " ", "i", "m", "a", "g", "e", "s">>)
       \/ includes(originalError, <<"n", "o", "t", " ", "f", "o", "u", "n", "d">>)
       \/ includes(originalError, <<"m", "o", "d", "e", "l", " ", "n", "o", "t", " ", "f", "o", "u", "n", "d">>)
       \/ includes(originalError, <<"I", "n", "v", "a", "l", "i", "d", " ", "m", "o", "d", "e", "l">>)
       \/ includes(originalError, <<"4", "0", "4">>)
    THEN [category |-> "model", provider |-> provider, model |-> model,
          original |-> <<>>]
    ELSE IF \/ includes(originalError, <<"A", "P", "I", " ", "k", "e", "y">>)
            \/ includes(originalError, <<"a", "u", "t", "h", "e", "n", "t", "i", "c", "a", "t", "i", "o", "n">>)
            \/ includes(originalError, <<"4", "0", "1">>)
    THEN [category |-> "authentication", provider |-> provider, model |-> "",
          original |-> <<>>]
    ELSE IF \/ includes(originalError, <<"r", "a", "t", "e", " ", "l", "i", "m", "i", "t">>)
            \/ includes(originalError, <<"4", "2", "9">>)
    THEN [category |-> "rate-limit", provider |-> provider, model |-> "",
          original |-> <<>>]
    ELSE IF \/ includes(originalError, <<"q", "u", "o", "t", "a">>)
            \/ includes(originalError, <<"i", "n", "s", "u", "f", "f", "i", "c", "i", "e", "n", "t">>)
    THEN [category |-> "quota", provider |-> provider, model |-> "",
          original |-> <<>>]
    ELSE [category |-> "other", provider |-> provider, model |-> model,
          original |-> originalError]

\* A loop that requests every provider of the list.
nextConfiguredAny(providers, from) ==
    IF from <= Len(providers) THEN from ELSE 0

\* The index of the first configured provider at or after from, 0 when the
\* loop of requestLLM runs out (lines 146-150).
nextConfigured(providers, from) ==
    LET rest == {i \in from..Len(providers) : isConfigured(providers[i])}
    IN  IF rest = {} THEN 0 ELSE CHOOSE i \in rest : \A j \in rest : i <= j

\* A response that reports the last failure only.
allFailedResponseLast(providers, errors) ==
    IF \A i \in 1..Len(providers) : ~isConfigured(providers[i])
    THEN [text |-> "No LLM providers configured. Please add an API key and model name in Settings > LLM Providers.",
          details |-> <<>>]
    ELSE [text |-> "All LLM providers failed.",
          details |-> IF errors = <<>> THEN <<>> ELSE <<errors[Len(errors)]>>]

\* The response after the loop, lines 163-180: errors.join(" | ") is kept as
\* the list of its parts.
allFailedResponse(providers, errors) ==
    IF \A i \in 1..Len(providers) : ~isConfigured(providers[i])
    THEN [text |-> "No LLM providers configured. Please add an API key and model name in Settings > LLM Providers.",
          details |-> <<>>]
    ELSE [text |-> "All LLM providers failed.", details |-> errors]

\* The loop of requestLLM from position from with the errors collected so
\* far: the next configured provider is requested (line 153, an await), or
\* the loop is over and the call returns.
requestLLMLoop(c, call, from) ==
    \E next \in {nextConfigured(call.providers, from)} :
        IF next = 0
        THEN /\ calls' = [calls EXCEPT ![c] = IdleCall]
             /\ ret' = [op |-> "llm", raised |-> FALSE, success |-> FALSE,
                        providers |-> call.providers, invoked |-> call.invoked,
                        thrown |-> call.thrown, answeredBy |-> 0,
                        error |-> allFailedResponse(call.providers, call.errors)]
        ELSE /\ calls' = [calls EXCEPT ![c] =
                             [call EXCEPT !.invoked = Append(@, next)]]
             /\ ret' = NoRet

\* requestLLM(settings, req) is called. Requests share no state: one request
\* per behaviour.
LLMStart(c) ==
    /\ mayStart(c, "llm")
    /\ ret = NoRet
    /\ \E n \in 0..MaxProviders : \E providers \in [1..n -> LLMConfigs] :
        requestLLMLoop(c, [op |-> "llm", pc |-> "await", providers |-> providers,
                           invoked |-> <<>>, thrown |-> <<>>, errors |-> <<>>], 1)
    /\ UNCHANGED <<stmts, disk, store, procs, runs, edits, workload>>

\* requestLLMUnified returns for the provider awaited (lines 125-140): with
\* the model's output, or with the formatted message of the Error thrown.
\* Every provider of LLMConfigs is one of the four the function knows.
LLMAnswer(c) ==
    /\ calls[c].op = "llm"
    /\ LET call == calls[c]
           current == call.invoked[Len(call.invoked)]
           config == call.providers[current]
       IN  \/ /\ calls' = [calls EXCEPT ![c] = IdleCall]
              /\ ret' = [op |-> "llm", raised |-> FALSE, success |-> TRUE,
                         providers |-> call.providers, invoked |-> call.invoked,
                         thrown |-> call.thrown, answeredBy |-> current,
                         error |-> [text |-> "", details |-> <<>>]]
           \/ \E originalError \in ProviderErrors :
                requestLLMLoop(c,
                    [call EXCEPT
                        !.thrown = Append(@, originalError),
                        !.errors = Append(@, formatModelError(config.provider,
                                                              config.model,
                                                              originalError))],
                    current + 1)
    /\ UNCHANGED <<stmts, disk, store, procs, runs, edits, workload>>

(***************************************************************************)
(* Reconciliation matcher                                                  *)
(* Instants are hours since the epoch; a confidence is counted in units of *)
(* 1/480, the date bonus of one hour (0.05 / 24): 0.5 is 240, 0.15 is 72.  *)
(***************************************************************************)
\* d.setDate(d.getDate() + days): the day of the month is moved in local
\* time and the local time of day is kept.
setDate(instant, days, zone) ==
    LET offset(t) == IF t < zone.change THEN zone.before ELSE zone.after
    IN  instant + days * 24 + offset(instant) - offset(instant + days * 24)

\* The rows the query of findMatchingInvoices selects (lines 323-340),
\* before take.
findCandidates(userId, transaction, zone) ==
    LET transactionDate == transaction.day * 24
        minDate == setDate(transactionDate, 0 - 7, zone)
        maxDate == setDate(transactionDate, 7, zone)
    IN  {r \in store :
            /\ r.userId = userId
            /\ r.total = transaction.amount
            /\ r.issuedAt >= minDate
            /\ r.issuedAt <= maxDate
            /\ r.linkedTransactionId = Null
            /\ r.sourceType \in {"invoice", "manual", "null"}}

\* suggestions.sort((a, b) => b.confidence - a.confidence): a stable sort,
\* by insertion from the right.
RECURSIVE sortByConfidence(_)
sortByConfidence(suggestions) ==
    IF Len(suggestions) <= 1 THEN suggestions
    ELSE LET first == Head(suggestions)
             rest == sortByConfidence(Tail(suggestions))
             ahead == {i \in 1..Len(rest) : rest[i].confidence > first.confidence}
             k == IF ahead = {} THEN 0 ELSE CHOOSE i \in ahead : \A j \in ahead : j <= i
         IN  SubSeq(rest, 1, k) \o <<first>> \o SubSeq(rest, k + 1, Len(rest))

\* findMatchingInvoices, lines 349-378: candidates is the result of the
\* query, in the order the database returned it.
findMatchingInvoices(transaction, candidates, maxSuggestions) ==
    LET transactionDate == transaction.day * 24
        score(candidate) ==
            LET hoursDiff == jsAbs(transactionDate - candidate.issuedAt)
                dateBonus == 168 - hoursDiff
                merchantBonus ==
                    IF /\ candidate.merchant # Null /\ candidate.merchant # <<>>
                       /\ transaction.description # <<>>
                       /\ LET merchantNorm == normalizeDescription(candidate.merchant)
                              descNorm == normalizeDescription(transaction.description)
                          IN  includes(descNorm, merchantNorm)
                                \/ includes(merchantNorm, descNorm)
                    THEN 72 ELSE 0
                confidence == 240 + dateBonus + merchantBonus
            IN  [transactionId |-> candidate.id,
                 transactionName |-> candidate.name,
                 confidence |-> IF confidence < 480 THEN confidence ELSE 480]
        sorted == sortByConfidence([i \in 1..Len(candidates) |-> score(candidates[i])])
    IN  SubSeq(sorted, 1, IF Len(sorted) < maxSuggestions THEN Len(sorted)
                          ELSE maxSuggestions)

\* findMatchingInvoices(userId, transaction, maxSuggestions) is called: the
\* query returns at most 2 * maxSuggestions of the rows it selects, in an
\* order of the database's choosing. One call per behaviour.
FindMatches(c) ==
    /\ mayStart(c, "match")
    /\ ret = NoRet
    /\ \E u \in workload.callers, zone \in TimeZones, maxSuggestions \in {1, 3} :
        \E selected \in {findCandidates(u, MatchTransaction, zone)} :
        \E n \in {IF Cardinality(selected) < 2 * maxSuggestions
                   THEN Cardinality(selected) ELSE 2 * maxSuggestions} :
        \E candidates \in {q \in [1..n -> selected] :
                               \A i \in 1..n, j \in 1..n : q[i] = q[j] => i = j} :
            ret' = [op |-> "match", userId |-> u, transaction |-> MatchTransaction,
                    zone |-> zone, maxSuggestions |-> maxSuggestions,
                    selected |-> selected, candidates |-> candidates,
                    suggestions |-> findMatchingInvoices(MatchTransaction, candidates,
                                                         maxSuggestions)]
    /\ UNCHANGED <<stmts, disk, store, procs, calls, runs, edits, workload>>

(***************************************************************************)
(* Specification                                                           *)
(***************************************************************************)
Import ==
    \E c \in CallIds :
        \/ ImportStart(c)
        \/ ImportTransaction(c)
        \/ ImportSetImported(c)

ImportAll == \E c \in CallIds : ImportAllStart(c) \/ ImportAllNext(c)

Edit == \E c \in CallIds : EditStart(c) \/ EditWrite(c)

Remap == \E c \in CallIds : RemapStart(c) \/ RemapMarkDuplicates(c) \/ RemapStore(c)

Delete == \E c \in CallIds : DeleteStart(c) \/ DeleteRecord(c)

\* The pure functions of the engine, applied on their own.
Functions == \E c \in CallIds : HashTransaction(c) \/ FindMatches(c) \/ ParseAmount(c)
                                \/ ParseDate(c) \/ DetectDelimiter(c)
                                \/ ExtractRow(c)

RequestLLM == \E c \in CallIds : LLMStart(c) \/ LLMAnswer(c)

Next == Upload \/ Process \/ Import \/ ImportAll \/ Edit \/ Remap \/ Delete \/ Functions
            \/ RequestLLM

Spec == Init /\ [][Next]_vars

(***************************************************************************)
(* Claims                                                                  *)
(***************************************************************************)
\* C1: the same file uploaded twice by one user and both statements imported
\* with skipDuplicates = true: the import that returns after the other
\* statement became imported creates nothing and skips all N transactions,
\* and the store holds exactly N rows.
IdempotentReupload ==
    \A s \in StmtIds, o \in StmtIds :
        (/\ workload = Reupload
         /\ s # o
         /\ ret.op = "import"
         /\ ret.success
         /\ ret.skipDuplicates
         /\ ret.sid = s
         /\ stmts[o].status = "imported")
        => /\ ret.importedCount = 0
           /\ ret.skippedDuplicates = Len(ret.read)
           /\ Cardinality(store) = Len(ret.read)

\* C2: an import with skipDuplicates = true creates no row whose hash is the
\* transactionHash of a row the user's store already holds when it commits.
NoDuplicateHashCreated ==
    [][\A c \in CallIds :
        (/\ calls[c].op = "import"
         /\ calls[c].pc = "transaction"
         /\ calls'[c] # calls[c]
         /\ calls[c].skipDuplicates)
        => \A t \in store' \ store : \A e \in store :
               e.userId = t.userId => e.transactionHash # t.transactionHash]_vars

\* C3: when one of the k creations of an import fails, whatever its position,
\* no row is persisted, no statement changes and the call reports failure.
AtomicImport ==
    [][(ret'.op = "import" /\ ret'.error = "Transaction create failed")
        => /\ store' = store
           /\ stmts' = stmts
           /\ ~ret'.success
           /\ ret'.importedCount = 0]_vars

\* The second of two creations failed after the first had been made.
AtomicImportWitness ==
    /\ ret.op = "import"
    /\ ret.error = "Transaction create failed"
    /\ Len(ret.toImport) = 2
    /\ Len(ret.created) = 1

\* C4: an import that returns an error result has left none of the rows it
\* created in the store.
NoPartialStateOnError ==
    (ret.op = "import" /\ ~ret.success)
    => \A i \in 1..Len(ret.created) : \A t \in store : t.id # ret.created[i]

\* C5: every change of a stored statement's status is pending -> processing,
\* processing -> ready, processing -> failed, ready -> imported, or a remap
\* taking ready or failed to ready; imported never changes.
LifecycleEdges ==
    [][\A s \in StmtIds :
        (/\ stmts[s].row = "present"
         /\ stmts'[s].row = "present"
         /\ stmts'[s].status # stmts[s].status)
        => <<stmts[s].status, stmts'[s].status>> \in
               {<<"pending", "processing">>, <<"processing", "ready">>,
                <<"processing", "failed">>, <<"ready", "imported">>,
                <<"failed", "ready">>}]_vars

\* C6: after importBankTransactions returns a success result, also one that
\* created nothing, the statement's status is imported.
ImportSuccessMeansImported ==
    (ret.op = "import" /\ ret.success) => stmts[ret.sid].status = "imported"

\* C7: a successful import, of no subset or of a non-empty one, persists
\* exactly the selected transactions of the subset that the duplicate filter
\* keeps, counts the ones the filter removes as skipped, and reports as many
\* ids as it created rows.
ImportSelectionAndCounts ==
    (/\ ret.op = "import"
     /\ ret.success
     /\ (~ret.given \/ ret.transactionIds # {}))
    => LET inSubset(t) == ~ret.given \/ t.id \in ret.transactionIds
           expected == SelectSeq(ret.read, LAMBDA t :
                           /\ t.selected
                           /\ inSubset(t)
                           /\ (~ret.skipDuplicates \/ ~t.isDuplicate))
           removed == SelectSeq(ret.read, LAMBDA t :
                          /\ t.selected
                          /\ inSubset(t)
                          /\ ret.skipDuplicates
                          /\ t.isDuplicate)
       IN  /\ ret.importedCount = Len(ret.resultIds)
           /\ ret.importedCount = Len(expected)
           /\ Cardinality({ret.resultIds[i] : i \in 1..Len(ret.resultIds)}) = Len(expected)
           /\ ret.skippedDuplicates = Len(removed)
           /\ \A i \in 1..Len(expected) :
                \E t \in store :
                    /\ t.id = ret.resultIds[i]
                    /\ t.transactionHash = expected[i].hash
                    /\ t.description = expected[i].description
                    /\ t.issuedAt = expected[i].date

\* An import of an explicit subset created a row and skipped a duplicate.
ImportSelectionWitness ==
    /\ ret.op = "import"
    /\ ret.success
    /\ ret.given
    /\ ret.importedCount > 0
    /\ ret.skippedDuplicates > 0

\* C8: every row an import creates has total = -amount for a debit and
\* +amount for a credit, the extracted transaction's hash, sourceType
\* "bank-import", the statement's id as sourceId and the importing user.
PersistedRecordFields ==
    [][\A c \in CallIds :
        (/\ calls[c].op = "import"
         /\ calls[c].pc = "transaction"
         /\ calls'[c] # calls[c])
        => /\ Cardinality(store' \ store) \in {0, Len(calls[c].toImport)}
           /\ \A t \in store' \ store :
                \E i \in 1..Len(calls[c].toImport) :
                    LET extracted == calls[c].toImport[i]
                    IN  /\ extracted.type \in {"debit", "credit"}
                        /\ t.total = IF extracted.type = "debit"
                                     THEN jsNeg(extracted.amount)
                                     ELSE extracted.amount
                        /\ t.transactionHash = extracted.hash
                        /\ t.sourceType = "bank-import"
                        /\ t.sourceId = calls[c].sid
                        /\ t.userId = calls[c].userId]_vars

\* The store holds an imported debit and an imported credit.
PersistedRecordWitness ==
    \E d \in store, k \in store : d.total < 0 /\ k.total > 0

\* C9 as stated: a background run never raises, and one that does not end
\* in ready leaves the statement failed with a non-empty errorMessage.
ProcessNeverRaises ==
    ret.op = "process"
    => /\ ~ret.raised
       /\ ret.outcome # "ready"
            => /\ stmts[ret.sid].status = "failed"
               /\ stmts[ret.sid].errorMessage \notin {"", NoMessage}

\* C9: a background run whose pipeline fails leaves the statement failed
\* with the failure as its non-empty errorMessage while the statement's row
\* exists; the run raises only when the row has been deleted.
ProcessFailureRecorded ==
    ret.op = "process"
    => IF ret.raised
       THEN stmts[ret.sid].row = "deleted"
       ELSE ret.outcome = "failed"
            => /\ stmts[ret.sid].row = "present"
               /\ stmts[ret.sid].status = "failed"
               /\ stmts[ret.sid].errorMessage = ret.error
               /\ ret.error \notin {"", NoMessage}

\* A background run has ended in failed.
ProcessFailureWitness ==
    /\ ret.op = "process"
    /\ ret.outcome = "failed"
    /\ stmts[ret.sid].status = "failed"

\* C10: a ready statement has stored data with at least one transaction,
\* and its transactionCount is the number of stored transactions and the
\* summary's transactionCount.
ReadyDataConsistent ==
    \A s \in StmtIds :
        (stmts[s].row = "present" /\ stmts[s].status = "ready")
        => /\ stmts[s].hasData
           /\ Len(stmts[s].extractedData.transactions) >= 1
           /\ stmts[s].transactionCount = Len(stmts[s].extractedData.transactions)
           /\ stmts[s].transactionCount = stmts[s].extractedData.summary.transactionCount

\* C11: in every stored ExtractedData, after extraction and after any
\* updateExtracted edit, each transaction's hash is the canonical hash of its
\* current date, amount and description.
StoredHashCanonical ==
    \A s \in StmtIds :
        (stmts[s].row = "present" /\ stmts[s].hasData)
        => \A i \in 1..Len(stmts[s].extractedData.transactions) :
               LET t == stmts[s].extractedData.transactions[i]
               IN  t.hash = generateTransactionHash(t.date, t.amount, t.description)

\* C12: every transaction of a stored ExtractedData has an amount that is a
\* non-negative integer, whichever pipeline produced it and after any edit.
StoredAmountNonNegative ==
    \A s \in StmtIds :
        (stmts[s].row = "present" /\ stmts[s].hasData)
        => \A i \in 1..Len(stmts[s].extractedData.transactions) :
               stmts[s].extractedData.transactions[i].amount \in Nat

\* C13: after every successful updateExtracted call the stored summary's
\* totalDebits, totalCredits and netAmount are the values calculateSummary
\* produces from scratch over the stored transactions.
SummaryRecomputed ==
    (ret.op = "edit" /\ ret.success)
    => LET data == stmts[ret.sid].extractedData
           fresh == calculateSummary(data.transactions)
       IN  /\ data.summary.totalDebits = fresh.totalDebits
           /\ data.summary.totalCredits = fresh.totalCredits
           /\ data.summary.netAmount = fresh.netAmount
           /\ data.summary.netAmount = data.summary.totalCredits - data.summary.totalDebits

\* An edit turned the debit of 5000 into a credit of 700 and the totals moved
\* with it.
SummaryRecomputedWitness ==
    /\ ret.op = "edit"
    /\ ret.success
    /\ ret.data.amount = 700
    /\ ret.data.type = "credit"
    /\ stmts[ret.sid].extractedData.summary.totalDebits = 0
    /\ stmts[ret.sid].extractedData.summary.totalCredits = 1950

\* C14: in every reachable state the stored summary's dateRange.start and
\* dateRange.end are the least and the greatest date of the stored
\* transactions.
DateRangeIsMinMax ==
    \A s \in StmtIds :
        (stmts[s].row = "present" /\ stmts[s].hasData)
        => LET data == stmts[s].extractedData
               dates == {data.transactions[i].date : i \in 1..Len(data.transactions)}
           IN  /\ data.summary.dateRange.start \in dates
               /\ data.summary.dateRange.end \in dates
               /\ \A d \in dates : ~strLess(d, data.summary.dateRange.start)
               /\ \A d \in dates : ~strLess(data.summary.dateRange.end, d)

DuplicateAnnotation ==
    [][LET annotated(userId, before, after) ==
               /\ Len(after) = Len(before)
               /\ \A i \in 1..Len(before) :
                    LET same == {t \in store : /\ t.userId = userId
                                               /\ t.transactionHash = before[i].hash}
                    IN  /\ after[i] = [before[i] EXCEPT
                                          !.isDuplicate = after[i].isDuplicate,
                                          !.duplicateOf = after[i].duplicateOf]
                        /\ after[i].isDuplicate <=> same # {}
                        /\ after[i].isDuplicate
                               => \E t \in same : t.id = after[i].duplicateOf
                        /\ ~after[i].isDuplicate => after[i].duplicateOf = Null
       IN  /\ \A s \in StmtIds :
                (procs[s].pc = "mark" /\ procs'[s].pc # "mark")
                => annotated(procs[s].userId, procs[s].result.transactions,
                             procs'[s].result.transactions)
           /\ \A c \in CallIds :
                (calls[c].op = "remap" /\ calls[c].pc = "mark" /\ calls'[c].pc = "store")
                => annotated(calls[c].userId, calls[c].data.transactions,
                             calls'[c].data.transactions)]_vars

\* A batch has been marked and one of its transactions is flagged with the
\* id of a persisted transaction of the same user and hash.
DuplicateAnnotationWitness ==
    \E s \in StmtIds :
        /\ procs[s].pc = "store"
        /\ \E i \in 1..Len(procs[s].result.transactions) :
            LET tx == procs[s].result.transactions[i]
            IN  /\ tx.isDuplicate
                /\ \E t \in store : /\ t.id = tx.duplicateOf
                                     /\ t.userId = procs[s].userId
                                     /\ t.transactionHash = tx.hash

\* C17: a delete, in any lifecycle state of the statement, leaves the set of
\* persisted transactions and every other statement unchanged; a delete of a
\* statement that does not exist or belongs to another user reports
\* "Statement not found" and changes nothing.
DeleteFrame ==
    [][/\ \A c \in CallIds :
            /\ (calls[c].op = "delete" /\ calls'[c] # calls[c])
               => /\ store' = store
                  /\ \A o \in StmtIds : o # calls[c].sid => stmts'[o] = stmts[o]
            /\ (calls[c].op = "idle" /\ calls'[c].op = "delete")
               => /\ getBankStatementById(calls'[c].sid, calls'[c].userId) # Undefined
                  /\ <<stmts', store'>> = <<stmts, store>>
                  /\ \A o \in StmtIds : o # calls'[c].sid => disk'[o] = disk[o]
       /\ (ret'.op = "delete" /\ calls' = calls)
            => /\ getBankStatementById(ret'.sid, ret'.userId) = Undefined
               /\ ~ret'.success
               /\ ret'.error = "Statement not found"
               /\ <<stmts', disk', store', procs'>> = <<stmts, disk, store, procs>>]_vars

\* An imported statement has been deleted and the transactions imported
\* from it are still persisted.
DeleteFrameWitness ==
    /\ ret.op = "delete"
    /\ ret.success
    /\ stmts[ret.sid].row = "deleted"
    /\ \E t \in store : t.sourceId = ret.sid

\* C18: requestLLM requests the configured providers (non-empty apiKey and
\* model) in list order and skips the others; a provider is requested only
\* after every configured provider before it has failed; the call returns
\* the response of the first provider that succeeds and requests none after
\* it.
ProviderFallbackOrder ==
    LET configuredOf(providers) ==
            SelectSeq([i \in 1..Len(providers) |-> i],
                      LAMBDA i : providers[i].apiKey # "" /\ providers[i].model # "")
        inOrder(providers, invoked) ==
            /\ Len(invoked) <= Len(configuredOf(providers))
            /\ invoked = SubSeq(configuredOf(providers), 1, Len(invoked))
    IN  /\ \A c \in CallIds :
            calls[c].op = "llm"
            => /\ inOrder(calls[c].providers, calls[c].invoked)
               /\ Len(calls[c].invoked) >= 1
               /\ Len(calls[c].thrown) = Len(calls[c].invoked) - 1
        /\ ret.op = "llm"
            => /\ inOrder(ret.providers, ret.invoked)
               /\ IF ret.success
                  THEN /\ Len(ret.invoked) >= 1
                       /\ ret.answeredBy = ret.invoked[Len(ret.invoked)]
                       /\ Len(ret.thrown) = Len(ret.invoked) - 1
                  ELSE /\ ret.invoked = configuredOf(ret.providers)
                       /\ Len(ret.thrown) = Len(ret.invoked)

\* The first provider failed, the second answered, and the third, which is
\* configured too, was not requested.
ProviderFallbackWitness ==
    /\ ret.op = "llm"
    /\ ret.success
    /\ ret.invoked = <<1, 2>>
    /\ Len(ret.providers) = 3
    /\ ret.providers[3].apiKey # ""
    /\ ret.providers[3].model # ""

\* C19: requestLLM never raises; when every configured provider fails it
\* returns one error holding the failure message of each provider requested,
\* in the order requested, each message of exactly one of the categories
\* model, authentication, rate-limit, quota and other; a call that a provider
\* answers returns no error, whatever failed before.
ProviderFailuresCombined ==
    ret.op = "llm"
    => /\ ~ret.raised
       /\ ret.success => ret.error = [text |-> "", details |-> <<>>]
       /\ (~ret.success /\ ret.invoked = <<>>)
            => /\ ret.error.details = <<>>
               /\ ret.error.text # "All LLM providers failed."
       /\ (~ret.success /\ ret.invoked # <<>>)
            => /\ ret.error.text = "All LLM providers failed."
               /\ Len(ret.error.details) = Len(ret.invoked)
               /\ \A k \in 1..Len(ret.invoked) :
                    LET message == ret.error.details[k]
                        thrown == ret.thrown[k]
                    IN  /\ message.provider = ret.providers[ret.invoked[k]].provider
                        /\ message.category \in
                             {"model", "authentication", "rate-limit", "quota", "other"}
                        /\ thrown = <<"4", "0", "4">> => message.category = "model"
                        /\ thrown = <<"4", "0", "1", " ", "I", "n", "c", "o", "r", "r", "e", "c", "t", " ", "A", "P", "I", " ", "k", "e", "y">>
                             => message.category = "authentication"
                        /\ thrown = <<"4", "2", "9">> => message.category = "rate-limit"
                        /\ thrown = <<"i", "n", "s", "u", "f", "f", "i", "c", "i", "e", "n", "t", " ", "q", "u", "o", "t", "a">>
                             => message.category = "quota"
                        /\ thrown = <<"t", "i", "m", "e", "o", "u", "t">>
                             => (message.category = "other" /\ message.original = thrown)

\* Two providers were requested, the first failed on its key and the second
\* on its rate limit, and the error returned lists both in that order.
ProviderFailuresWitness ==
    /\ ret.op = "llm"
    /\ ~ret.success
    /\ Len(ret.invoked) = 2
    /\ Len(ret.error.details) = 2
    /\ ret.error.details[1].category = "authentication"
    /\ ret.error.details[2].category = "rate-limit"
    /\ ret.error.details[1].provider # ret.error.details[2].provider

\* C20: every suggestion findMatchingInvoices returns has the confidence
\* min(1.0, 0.5 + 0.05 * (7 - d) + 0.15 if the merchant and the description
\* contain one another after normalization), d the distance of the two
\* dates, between 0 and 7 days; so it lies between 0.5 and 1.0; and of two
\* suggestions of the same amount and issuedAt the one with the overlap
\* comes first. In units of 1/480: 240 + (168 - hours) + 72, at most 480.
ReconciliationScoring ==
    ret.op = "match" =>
        LET transactionDate == ret.transaction.day * 24
            row(k) == CHOOSE r \in store : r.id = ret.suggestions[k].transactionId
            hours(k) == jsAbs(transactionDate - row(k).issuedAt)
            overlap(k) ==
                /\ row(k).merchant # Null
                /\ \/ includes(normalizeDescription(ret.transaction.description),
                               normalizeDescription(row(k).merchant))
                   \/ includes(normalizeDescription(row(k).merchant),
                               normalizeDescription(ret.transaction.description))
            expected(k) == 240 + (168 - hours(k)) + (IF overlap(k) THEN 72 ELSE 0)
        IN  /\ \A k \in 1..Len(ret.suggestions) :
                 /\ hours(k) \in 0..168
                 /\ ret.suggestions[k].confidence =
                        (IF expected(k) < 480 THEN expected(k) ELSE 480)
                 /\ ret.suggestions[k].confidence \in 240..480
                 /\ hours(k) = 168 => ret.suggestions[k].confidence
                                        = 240 + (IF overlap(k) THEN 72 ELSE 0)
            /\ \A j \in 1..Len(ret.suggestions), k \in 1..Len(ret.suggestions) :
                 (/\ row(j).total = row(k).total
                  /\ row(j).issuedAt = row(k).issuedAt
                  /\ overlap(j) /\ ~overlap(k)) => j < k

\* C21: findMatchingInvoices(user, t, K) returns at most K suggestions in
\* non-increasing order of confidence, never a bank import or a linked
\* row, and they are the K highest-scoring of all the rows of the user
\* that have the amount, an issuedAt within 7 days of the date, no link
\* and a source other than bank-import, however many such rows there are.
TopKReconciliation ==
    ret.op = "match" =>
        LET transactionDate == ret.transaction.day * 24
            eligible == {r \in store :
                            /\ r.userId = ret.userId
                            /\ r.total = ret.transaction.amount
                            /\ jsAbs(transactionDate - r.issuedAt) <= 168
                            /\ r.linkedTransactionId = Null
                            /\ r.sourceType # "bank-import"}
            scoreOf(r) == findMatchingInvoices(ret.transaction, <<r>>, 1)[1].confidence
            suggested == {ret.suggestions[k].transactionId : k \in 1..Len(ret.suggestions)}
        IN  /\ Len(ret.suggestions) =
                  (IF Cardinality(eligible) < ret.maxSuggestions
                   THEN Cardinality(eligible) ELSE ret.maxSuggestions)
            /\ \A k \in 1..Len(ret.suggestions) :
                 /\ k > 1 => ret.suggestions[k - 1].confidence
                                >= ret.suggestions[k].confidence
                 /\ \E r \in eligible :
                       /\ r.id = ret.suggestions[k].transactionId
                       /\ ret.suggestions[k].confidence = scoreOf(r)
            /\ \A r \in eligible :
                 r.id \notin suggested
                    => \A k \in 1..Len(ret.suggestions) :
                          ret.suggestions[k].confidence >= scoreOf(r)

\* C22: in every reachable state, among the persisted transactions of one
\* user with sourceType "bank-import" no two rows have the same
\* transactionHash.
StoredHashUnique ==
    \A r1 \in store, r2 \in store :
        (/\ r1.sourceType = "bank-import" /\ r2.sourceType = "bank-import"
         /\ r1.userId = r2.userId
         /\ r1.transactionHash = r2.transactionHash)
        => r1.id = r2.id

\* C23: for an amount written with an optional leading minus or wrapping
\* parentheses, an optional currency symbol, digits and separators,
\* parseAmount reads it as European (dots group, the comma is decimal)
\* exactly when the cleaned string ends in a comma and two digits and as US
\* otherwise, returns the absolute value rounded to the minor unit, with
\* type debit when the amount is negative and the default type otherwise.
AmountParsing ==
    ret.op = "amount" =>
        LET w == ret.written
            joined == IF Len(w.groups) = 1 THEN w.groups[1]
                      ELSE w.groups[1] \o w.groups[2]
            european == w.style = "european" /\ Len(w.fraction) = 2
            \* the digits before and after the decimal point of the reading
            before == IF w.style = "us" \/ european THEN joined
                      ELSE IF Len(w.groups) = 1 THEN joined \o w.fraction
                      ELSE w.groups[1]
            after == IF w.style = "us" \/ european THEN w.fraction
                     ELSE IF Len(w.groups) = 1 THEN <<>>
                     ELSE w.groups[2] \o w.fraction
            digit(i) == IF i <= Len(after) THEN DigitVal(after[i]) ELSE 0
            minor == parseIntDigits(before) * 100 + digit(1) * 10 + digit(2)
                       + (IF digit(3) >= 5 THEN 1 ELSE 0)
        IN  /\ ret.result.amount = minor
            /\ ret.result.type = (IF w.sign = "none" THEN ret.defaultType ELSE "debit")

\* "1,234.56" and "1.234,56" each gave 123456 and "-50.00" gave 5000, debit.
AmountParsingWitness ==
    /\ ret.op = "amount"
    /\ ret.defaultType = "credit"
    /\ \/ ret.amountStr = <<"1", ",", "2", "3", "4", ".", "5", "6">>
          /\ ret.result = [amount |-> 123456, type |-> "credit"]
       \/ ret.amountStr = <<"(", "$", "1", ".", "2", "3", "4", ",", "5", "6", ")">>
          /\ ret.result = [amount |-> 123456, type |-> "debit"]

\* C24: of a/b/YYYY or a-b-YYYY parseDate takes a as the day when a > 12,
\* b as the day when a <= 12 and b > 12, and otherwise follows the
\* preference (day first when preferEuropean); a.b.YYYY is read day first
\* whatever the preference.
DateDisambiguation ==
    (ret.op = "date" /\ ret.written.order = "dmy") =>
        LET a == parseIntDigits(ret.written.first)
            b == parseIntDigits(ret.written.second)
            dayFirst == IF ret.written.separator = "." THEN TRUE
                        ELSE IF a > 12 THEN TRUE
                        ELSE IF b > 12 THEN FALSE
                        ELSE ret.preferEuropean
            day == IF dayFirst THEN a ELSE b
            month == IF dayFirst THEN b ELSE a
        IN  /\ ret.result.ok
            /\ ret.result.value = <<"2", "0", "2", "4", "-">> \o padStart2(natToString(month))
                                     \o <<"-">> \o padStart2(natToString(day))

\* "13/01/2024" read month first gave 2024-01-13, or "01.02.2024" read
\* month first gave 2024-02-01.
DateDisambiguationWitness ==
    /\ ret.op = "date"
    /\ ~ret.preferEuropean
    /\ \/ /\ ret.dateStr = <<"1", "3", "/", "0", "1", "/", "2", "0", "2", "4">>
          /\ ret.result.value = <<"2", "0", "2", "4", "-", "0", "1", "-", "1", "3">>
       \/ /\ ret.dateStr = <<"0", "1", ".", "0", "2", ".", "2", "0", "2", "4">>
          /\ ret.result.value = <<"2", "0", "2", "4", "-", "0", "2", "-", "0", "1">>

\* C25: every string parseDate returns is a 10-character YYYY-MM-DD with a
\* month in 1..12 and a day that exists in that month; an input that
\* denotes no such date makes parseDate raise an error.
CanonicalDates ==
    (ret.op = "date" /\ ret.result.ok) =>
        LET v == ret.result.value
            month == parseIntDigits(SubSeq(v, 6, 7))
            day == parseIntDigits(SubSeq(v, 9, 10))
            daysIn == IF month = 2 THEN 29
                      ELSE IF month \in {4, 6, 9, 11} THEN 30 ELSE 31
        IN  /\ Len(v) = 10
            /\ AllDigits(SubSeq(v, 1, 4)) /\ v[5] = "-"
            /\ AllDigits(SubSeq(v, 6, 7)) /\ v[8] = "-"
            /\ AllDigits(SubSeq(v, 9, 10))
            /\ month \in 1..12
            /\ day \in 1..daysIn

\* C26: detectDelimiter considers the first 10 lines and the candidates
\* comma, semicolon, tab and pipe; a candidate passes only if every one of
\* those lines splits into the same number, above 1, of columns; the result
\* is the passing candidate of the highest count and comma when none
\* passes, whether or not the file ends with a newline.
DelimiterDetection ==
    ret.op = "delimiter" =>
        LET raggedInView == ret.ragged /\ ret.lines <= 10
            delimiterPasses == ret.cols > 1 /\ ~raggedInView
            otherPasses == ret.other # ""
        IN  IF delimiterPasses /\ otherPasses
            THEN IF ret.cols > 2 THEN ret.result = ret.delimiter
                 ELSE ret.result \in {ret.delimiter, ret.other}
            ELSE IF delimiterPasses THEN ret.result = ret.delimiter
            ELSE IF otherPasses THEN ret.result = ret.other
            ELSE ret.result = ","

\* C27: under a column mapping that names a type column, at any index and
\* at index 0 too, a row whose type cell contains "credit" or is "c" or "cr"
\* in any case is emitted as a credit, one whose type cell contains "debit"
\* or is "d" or "db" as a debit, whatever the amount's sign; the cell of a
\* currency column at any index is the currency emitted.
TypeColumnOverride ==
    ret.op = "row" =>
        LET typeStr == toLowerCase(ret.row[ret.columnMapping.typeColumn + 1])
            currency == ret.row[ret.columnMapping.currencyColumn + 1]
        IN  /\ typeStr \in {<<"c", "r", "e", "d", "i", "t">>, <<"c">>, <<"c", "r">>}
                 => ret.transaction.type = "credit"
            /\ typeStr \in {<<"d", "e", "b", "i", "t">>, <<"d">>, <<"d", "b">>}
                 => ret.transaction.type = "debit"
            /\ currency # <<>> => ret.transaction.currency = currency

\* C28: an import called with an explicit list of transaction ids that is
\* empty, or that holds no id of a selected transaction, persists nothing
\* and changes no statement: it returns a success of zero count and never
\* reaches its database transaction.
ExplicitSubsetRestricts ==
    LET matches(read, transactionIds) ==
            \E i \in 1..Len(read) : read[i].selected /\ read[i].id \in transactionIds
    IN  /\ \A c \in CallIds :
             (/\ calls[c].op = "import" /\ calls[c].given
              /\ calls[c].pc \in {"transaction", "status"})
             => matches(calls[c].read, calls[c].transactionIds)
        /\ (/\ ret.op = "import" /\ ret.given
            /\ ret.error # "Statement not found or not processed"
            /\ ~matches(ret.read, ret.transactionIds))
           => /\ ret.success
              /\ ret.importedCount = 0
              /\ ret.resultIds = <<>>

\* C29: no edit is lost: the write of a successful updateExtracted call
\* changes the one transaction it targets and leaves every other stored
\* transaction as it is at the time of the write, whether another edit or
\* a remap has written the statement since the call read it.
NoLostEdits ==
    [][\A c \in CallIds :
        (/\ calls[c].op = "edit" /\ calls[c].pc = "write"
         /\ calls'[c].op = "idle"
         /\ ret'.op = "edit" /\ ret'.success)
        => LET s == calls[c].sid
               old == stmts[s].extractedData.transactions
               new == stmts'[s].extractedData.transactions
           IN  /\ Len(new) = Len(old)
               /\ \A i \in 1..Len(old) :
                    /\ new[i].id = old[i].id
                    /\ new[i].id # calls[c].updatedTx.id => new[i] = old[i]]_vars

\* C30: in every reachable state a statement has a stored errorMessage,
\* which getBankStatementStatus reports when it is not empty, only while
\* its status is failed; so none after a remap has made a failed statement
\* ready, nor after its import.
ErrorMessageOnlyWhenFailed ==
    \A s \in StmtIds :
        (stmts[s].row = "present" /\ stmts[s].errorMessage \notin {NoMessage, ""})
        => stmts[s].status = "failed"

=============================================================================
